---- MODULE Spec2Model ----
(***************************************************************************)
(* Astra report scheduling and execution: the useReports hook (the three   *)
(* implementations kept in the repository), its next-run-time calculators  *)
(* and the periodic eligibility check of the reports view.                 *)
(*                                                                         *)
(* Instants are minutes since 1 January 00:00 UTC of one civil year; a     *)
(* JavaScript Date is its epoch value, and its local fields are obtained   *)
(* through the offset of the browser's time zone.                          *)
(***************************************************************************)
EXTENDS Integers, Sequences, FiniteSets, TLC

VARIABLES
    variant,         \* which useReports implementation the client was built with
    webhookUrl,      \* import.meta.env.VITE_N8N_WEBHOOK_URL is configured
    browserTz,       \* time zone of the browser running the client
    jan1Dow,         \* weekday of 1 January of the civil year (0 = Sunday)
    now,             \* the wall clock, new Date()
    astra_reports,   \* table astra_reports: id -> row or NoRow
    astra_chats,     \* table astra_chats: sequence of rows, oldest first
    userReports,     \* useState userReports
    reportMessages,  \* useState reportMessages / reportHistory (row ids, newest first)
    runningReports,  \* useState runningReports
    rendered,        \* runningReports as captured by the closures of the last render
    error,           \* useState error
    inv,             \* the invocations of runReportNow: position and locals
    timers,          \* pending setTimeout refreshes
    checks,          \* number of periodic checkScheduledReports() calls so far
    dueAtCheck,      \* history: configs that were due when the periodic check last ran
    selected,        \* history: configs the periodic check selected for execution
    calc,            \* the calculator under test: inputs and result
    ops,             \* the calls of the store operations: position and locals
    writes,          \* history: the filters of the writes issued to astra_reports
    fn,              \* the invocation of the generate-report function
    astra_notifications, \* table astra_notifications: id -> row
    notifications,   \* useAppNotifications: useState notifications
    unreadCount,     \* useAppNotifications: useState unreadCount
    notificationsError,  \* useAppNotifications: useState error
    channel,         \* realtime events on their way to the subscription
    ncalls           \* the calls of the notification operations: position and locals

vars == <<variant, webhookUrl, browserTz, jan1Dow, now, astra_reports, astra_chats,
          userReports, reportMessages, runningReports, rendered, error, inv,
          timers, checks, dueAtCheck, selected, calc, ops, writes, fn,
          astra_notifications, notifications, unreadCount, notificationsError,
          channel, ncalls>>

\* the state of useReports, its tables and the generate-report function
vars_reports == <<variant, webhookUrl, browserTz, jan1Dow, now, astra_reports,
                  astra_chats, userReports, reportMessages, runningReports, rendered,
                  error, inv, timers, checks, dueAtCheck, selected, calc, ops, writes,
                  fn>>

\* the state of useAppNotifications, its table and its realtime channel
notifVars == <<astra_notifications, notifications, unreadCount, notificationsError,
               channel, ncalls>>

runVars == <<variant, webhookUrl, astra_reports, astra_chats, userReports,
             reportMessages, runningReports, rendered, error, inv, timers,
             checks, dueAtCheck, selected, ops, writes, fn, notifVars>>

NULL == -1             \* a null timestamp
NoError == "null"      \* error === null
Undefined == "undefined"

----------------------------------------------------------------------------
(* Civil time                                                               *)

MinPerHour == 60
MinPerDay == 24 * MinPerHour
MarchFirst == 31 + 28                              \* 0-based day of the year of 1 March
NovemberFirst == MarchFirst + 31 + 30 + 31 + 30 + 31 + 31 + 30 + 31   \* of 1 November
EST == (-5) * MinPerHour
EDT == (-4) * MinPerHour

EASTERN == "America/New_York"
TimeZones == {"UTC", EASTERN, "America/Phoenix", "Asia/Tokyo"}

MinOf(S) == CHOOSE x \in S : \A y \in S : x <= y

\* Date.prototype.getDay() of the civil day with index d
Dow(d) == (jan1Dow + d) % 7

\* The civil rule of America/New_York: daylight time from the second Sunday
\* of March 02:00 EST to the first Sunday of November 02:00 EDT.
SecondSundayOfMarch == MarchFirst + 7 + ((7 - Dow(MarchFirst)) % 7)
FirstSundayOfNovember == NovemberFirst + ((7 - Dow(NovemberFirst)) % 7)
DstStartUtc == SecondSundayOfMarch * MinPerDay + 2 * MinPerHour - EST
DstEndUtc == FirstSundayOfNovember * MinPerDay + 2 * MinPerHour - EDT

Offsets(tz) ==
    CASE tz = "UTC" -> {0}
      [] tz = "America/Phoenix" -> {-420}
      [] tz = "Asia/Tokyo" -> {540}
      [] tz = EASTERN -> {EST, EDT}

\* offset of zone tz at the instant e: local wall clock = e + Off(tz, e)
Off(tz, e) ==
    IF tz = EASTERN
    THEN IF e >= DstStartUtc /\ e < DstEndUtc THEN EDT ELSE EST
    ELSE MinOf(Offsets(tz))

\* local fields of a Date (getFullYear/getMonth/getDate/getHours/getMinutes),
\* and toLocaleString(..., {timeZone: tz})
ToWall(tz, e) == e + Off(tz, e)

\* new Date(y, m, d, h, mi) and Date.parse of a zone-less string: the wall
\* clock w read in zone tz.  A repeated hour takes its first occurrence, a
\* skipped hour is read with the offset in force before the transition.
FromWall(tz, w) ==
    LET cands == {e \in {w - o : o \in Offsets(tz)} : e + Off(tz, e) = w}
    IN  IF cands # {} THEN MinOf(cands) ELSE w - MinOf(Offsets(tz))

WallDay(w) == w \div MinPerDay
WallTime(w) == w % MinPerDay

\* scheduleTime.split(':').map(Number): schedule_time is <<hours, minutes>>
MinutesOf(scheduleTime) == scheduleTime[1] * MinPerHour + scheduleTime[2]

\* d.setHours(hours, minutes, 0, 0) in the browser's zone
setHours(d, scheduleTime) ==
    FromWall(browserTz, WallDay(ToWall(browserTz, d)) * MinPerDay + MinutesOf(scheduleTime))

\* d.setDate(d.getDate() + 1) in the browser's zone
setDateNextDay(d) == FromWall(browserTz, ToWall(browserTz, d) + MinPerDay)

----------------------------------------------------------------------------
(* Next-run-time calculators                                                *)

\* createReport / updateReport of src/hooks/useReports.ts: today at the
\* schedule time in the browser's local time, tomorrow when already passed
nextRunLocal(scheduleTime) ==
    LET nextRun == setHours(now, scheduleTime)
    IN  IF nextRun <= now THEN setDateNextDay(nextRun) ELSE nextRun

\* isEasternDaylightTime(date)
isEasternDaylightTime(date) ==
    LET marchSecondSunday ==
            FromWall(browserTz,
                     (MarchFirst + (1 + (7 - Dow(MarchFirst)) + 7) - 1) * MinPerDay)
        novemberFirstSunday ==
            FromWall(browserTz,
                     (NovemberFirst + (1 + ((7 - Dow(NovemberFirst)) % 7)) - 1) * MinPerDay)
    IN  date >= marchSecondSunday /\ date < novemberFirstSunday

\* calculateNextRunTime(scheduleTime)
calculateNextRunTime(scheduleTime) ==
    LET nowInEastern == FromWall(browserTz, ToWall(EASTERN, now))
        today == FromWall(browserTz,
                          WallDay(ToWall(browserTz, nowInEastern)) * MinPerDay
                            + MinutesOf(scheduleTime))
        todayEastern == IF today <= nowInEastern THEN setDateNextDay(today) ELSE today
        offsetHours == IF isEasternDaylightTime(todayEastern) THEN 4 ELSE 5
    IN  todayEastern + offsetHours * MinPerHour

\* What the calculator is specified to return: r is the instant at which the
\* Eastern wall clock shows the schedule time, on today's Eastern civil date
\* when that time is still ahead of t, on the next civil day otherwise.
IsEasternNextRun(t, scheduleTime, r) ==
    LET w == ToWall(EASTERN, t)
        today == WallDay(w) * MinPerDay + MinutesOf(scheduleTime)
    IN  ToWall(EASTERN, r) = IF today > w THEN today ELSE today + MinPerDay

----------------------------------------------------------------------------
(* The client session                                                       *)

MaxRuns == 2             \* invocations of runReportNow in one behaviour
MaxTicks == 2            \* clock ticks in one behaviour
MaxChecks == 1           \* periodic checks in one behaviour
TickMinutes == 60
StartDay == 180          \* a day in summer
StartInstant == StartDay * MinPerDay + 10 * MinPerHour

CURRENT == "src/hooks/useReports.ts"
GUARDED == "part_002:useReports"
RESCHEDULING == "part_003:useReports"
Variants == {CURRENT, GUARDED, RESCHEDULING}

CurrentUser == "u1"
OtherUser == "u2"
ConfigIds == {"r1", "r2", "r3"}

\* { ...a, ...b }
Spread(a, b) ==
    [k \in DOMAIN a \cup DOMAIN b |-> IF k \in DOMAIN b THEN b[k] ELSE a[k]]

\* rows of astra_reports
Config(user, title, type, time, active, nextRun) ==
    [user_id |-> user, title |-> title, prompt |-> "P", schedule_type |-> type,
     schedule_frequency |-> "daily", schedule_time |-> time, is_active |-> active,
     last_run_at |-> NULL, next_run_at |-> nextRun,
     created_at |-> StartInstant - MinPerDay, updated_at |-> StartInstant - MinPerDay]

\* .from('astra_reports').select(...).eq('user_id', user.id)
SelectUserReports(table, user) ==
    [id \in {r \in DOMAIN table : table[r].user_id = user} |-> table[id]]

\* the rows of a table selected by a chain of .eq() filters on the columns
\* named in filter: .eq('id', id) and .eq('user_id', user)
Matches(table, filter, id, user) ==
    {r \in DOMAIN table : /\ "id" \in filter => r = id
                          /\ "user_id" \in filter => table[r].user_id = user}

\* .update(payload) on the selected rows: the columns of the payload are set
UpdateRows(table, rows, payload) ==
    [r \in DOMAIN table |-> IF r \in rows THEN Spread(table[r], payload) ELSE table[r]]

\* .delete() on the selected rows
DeleteRows(table, rows) == [r \in DOMAIN table \ rows |-> table[r]]

\* .insert(row)
InsertRow(table, id, row) ==
    [r \in DOMAIN table \cup {id} |-> IF r = id THEN row ELSE table[r]]

\* the filters of the writes to astra_reports
UpdateReportFilter == {"id", "user_id"}     \* updateReport: .eq('id', id).eq('user_id', user.id)
DeleteReportFilterIdOnly == {"id"}
DeleteReportFilter == {"id", "user_id"}     \* deleteReport: .eq('id', id).eq('user_id', user.id)
RunUpdateFilter == {"id"}                   \* runReportNow: .eq('id', id)
FnUpdateFilter == {"id"}                    \* generate-report: .eq('id', reportId)

Write(by, filter) == [by |-> by, filter |-> filter]

\* .from('astra_chats').select('*').eq('user_id', ..).eq('mode', 'reports')
\*   .eq('message_type', 'astra').order('created_at', {ascending: false})
RECURSIVE SelectReportMessages(_, _)
SelectReportMessages(rows, user) ==
    IF rows = <<>> THEN <<>>
    ELSE LET r == rows[Len(rows)]
             rest == SelectReportMessages(SubSeq(rows, 1, Len(rows) - 1), user)
         IN  IF r.user_id = user /\ r.mode = "reports" /\ r.message_type = "astra"
             THEN <<r.id>> \o rest ELSE rest

\* webhook response bodies
PlainText == "Y"
JsonOutput == "{\"output\":\"X\"}"
JsonEmptyOutput == "{\"output\":\"\"}"
JsonNoOutput == "{\"text\":\"W\"}"
JsonMetadata == "{\"output\":\"X\",\"metadata\":{\"report_title\":\"Z\"}}"
Bodies == {PlainText, JsonOutput, JsonEmptyOutput, JsonNoOutput, JsonMetadata}

NoFields == [k \in {} |-> ""]

\* JSON.parse(responseText): ok = FALSE when it throws
JSONParse(text) ==
    CASE text = JsonOutput ->
            [ok |-> TRUE, hasOutput |-> TRUE, output |-> "X", metadata |-> NoFields]
      [] text = JsonEmptyOutput ->
            [ok |-> TRUE, hasOutput |-> TRUE, output |-> "", metadata |-> NoFields]
      [] text = JsonNoOutput ->
            [ok |-> TRUE, hasOutput |-> FALSE, output |-> Undefined, metadata |-> NoFields]
      [] text = JsonMetadata ->
            [ok |-> TRUE, hasOutput |-> TRUE, output |-> "X",
             metadata |-> [report_title |-> "Z"]]
      [] OTHER ->
            [ok |-> FALSE, hasOutput |-> FALSE, output |-> Undefined, metadata |-> NoFields]

\* JavaScript truthiness of a string-or-undefined value
Truthy(v) == v # Undefined /\ v # ""

\* reportContent: jsonResponse.output when it is truthy, else the raw text
ReportContent(responseText) ==
    LET jsonResponse == JSONParse(responseText)
    IN  IF jsonResponse.ok /\ Truthy(jsonResponse.output)
        THEN jsonResponse.output ELSE responseText

\* metadata: the snapshot of the report, overlaid with jsonResponse.metadata
ReportMetadata(report, responseText) ==
    LET jsonResponse == JSONParse(responseText)
        metadata == [report_title |-> report.title,
                     report_schedule |-> report.schedule_time,
                     report_frequency |-> report.schedule_frequency,
                     is_manual_run |-> TRUE,
                     executed_at |-> now]
    IN  IF jsonResponse.ok /\ DOMAIN jsonResponse.metadata # {}
        THEN Spread(metadata, jsonResponse.metadata) ELSE metadata

ChatRowUntagged(rowId, content, metadata) ==
    [id |-> rowId, user_id |-> CurrentUser, message |-> content,
     message_type |-> "astra", mode |-> "private", metadata |-> metadata]

\* the row runReportNow inserts into astra_chats
ChatRow(rowId, content, metadata) ==
    [id |-> rowId, user_id |-> CurrentUser, message |-> content,
     message_type |-> "astra", mode |-> "reports", metadata |-> metadata]

AddRunningAlone(prev, id) == {id}

\* setRunningReports(prev => new Set([...prev, id]))
AddRunning(prev, id) == prev \cup {id}

FinallyRunningKeepsId(prev, id) == prev

\* finally: setRunningReports(prev => { newSet.delete(id) })
FinallyRunning(prev, id) == prev \ {id}

\* "Prevent multiple runs of the same report": runningReports.has(reportId),
\* read from the closure of the last render; only one implementation has it
AlreadyRunning(id) == variant = GUARDED /\ id \in rendered

\* the configs whose next_run_at has passed
DueConfigs(reports) ==
    {id \in DOMAIN reports : reports[id].next_run_at # NULL
                             /\ reports[id].next_run_at <= now}

ScheduledSelectionAllDue(reports) == DueConfigs(reports)

\* checkScheduledReports(): a placeholder that logs and selects nothing
ScheduledSelection(reports) == {}

RunError == "Failed to run report"

Idle == [id |-> "", pc |-> "idle", posted |-> FALSE, row |-> 0, result |-> "none",
         failure |-> "none", errorSet |-> FALSE, ok2xx |-> FALSE, inserts |-> 0,
         body |-> "", content |-> "", metadata |-> NoFields, report |-> NoFields,
         lastRun |-> NULL, nextRun |-> NULL]

Started(id, report) == [Idle EXCEPT !.id = id, !.report = report]

\* the end of an invocation: its result and, for a failure, what failed; the
\* locals of the call are gone
Ended(rec, result, failure, errorSet) ==
    [rec EXCEPT !.pc = "ended", !.result = result, !.failure = failure,
                !.errorSet = errorSet, !.content = "", !.metadata = NoFields,
                !.report = NoFields, !.lastRun = NULL, !.nextRun = NULL]

CalcOff == [pc |-> "off", fn |-> "", scheduleTime |-> <<0, 0>>, result |-> NULL,
            daylight |-> FALSE]

\* a call of a store operation (createReport, updateReport, toggleReportActive,
\* deleteReport, deleteReportMessage) or a form submission
NoOp == [op |-> "", id |-> "", pc |-> "idle", payload |-> NoFields, form |-> NoFields,
         result |-> "none", calls |-> 0, wrote |-> FALSE, refetched |-> FALSE,
         listed |-> FALSE, errorSet |-> FALSE, data |-> NoFields]

\* the end of a call: its locals are gone
EndedOp(rec, result, errorSet) ==
    [rec EXCEPT !.pc = "ended", !.result = result, !.errorSet = errorSet,
                !.payload = NoFields]

\* the generate-report function before a request: its environment, and what
\* its invocation has issued and answered
FnIdle == [pc |-> "idle", supabaseUrl |-> TRUE, supabaseServiceKey |-> TRUE,
          geminiApiKey |-> TRUE, userId |-> "", reportId |-> "", calls |-> {},
          report |-> NoFields, reportText |-> "", status |-> 0, success |-> FALSE,
          error |-> "", updated |-> FALSE]

\* rows of astra_chats that exist before the session
ReportRowId == 101
OtherRowId == 102
PrivateRowId == 103
StoredChats ==
    << [id |-> ReportRowId, user_id |-> CurrentUser, message |-> "X",
        message_type |-> "astra", mode |-> "reports",
        metadata |-> [report_title |-> "Daily brief"]],
       [id |-> OtherRowId, user_id |-> OtherUser, message |-> "X",
        message_type |-> "astra", mode |-> "reports",
        metadata |-> [report_title |-> "Theirs"]],
       [id |-> PrivateRowId, user_id |-> CurrentUser, message |-> "X",
        message_type |-> "astra", mode |-> "private", metadata |-> NoFields] >>

\* rows of astra_notifications that exist before the session
StoredNotifications ==
    [id \in {"a1", "a2", "b1"} |->
        [user_id |-> IF id = "b1" THEN OtherUser ELSE CurrentUser, is_read |-> FALSE]]

\* useAppNotifications after construction: useState([]), useState(0),
\* useState(null); nothing on the channel, no call made yet
NotificationsMounted ==
    /\ astra_notifications = StoredNotifications
    /\ notifications = <<>>
    /\ unreadCount = 0
    /\ notificationsError = NoError
    /\ channel = <<>>
    /\ ncalls = <<>>

\* the client after mount: the user is signed in, the lists are loaded
Client(tz, active, chats) ==
    /\ variant \in Variants
    /\ webhookUrl \in BOOLEAN
    /\ browserTz = tz
    /\ jan1Dow = 3
    /\ now = StartInstant
    /\ astra_reports =
         [id \in ConfigIds |->
            CASE id = "r1" -> Config(CurrentUser, "Daily brief", "scheduled", <<7, 0>>,
                                     active, StartInstant - MinPerHour)
              [] id = "r2" -> Config(CurrentUser, "Ad hoc", "manual", <<9, 0>>,
                                     TRUE, NULL)
              [] id = "r3" -> Config(OtherUser, "Theirs", "scheduled", <<7, 0>>,
                                     TRUE, StartInstant + MinPerDay)]
    /\ astra_chats = chats
    /\ userReports = SelectUserReports(astra_reports, CurrentUser)
    /\ reportMessages = SelectReportMessages(chats, CurrentUser)
    /\ runningReports = {}
    /\ rendered = {}
    /\ error = NoError
    /\ inv = <<>>
    /\ timers = 0
    /\ checks = 0
    /\ dueAtCheck = {}
    /\ selected = {}
    /\ calc = CalcOff
    /\ ops = <<>>
    /\ writes = {}
    /\ NotificationsMounted

\* the session after mount, the function deployed with its environment set
Mounted(tz, active, chats) == Client(tz, active, chats) /\ fn = FnIdle

Session(tz, active) == Mounted(tz, active, <<>>)

Init == Session(EASTERN, TRUE)

InitTimed == \E tz \in {"UTC", EASTERN}, active \in BOOLEAN : Session(tz, active)

----------------------------------------------------------------------------
(* runReportNow                                                             *)

InFlight(i) == inv[i].pc \notin {"idle", "ended"}

SetInv(i, rec) == [inv EXCEPT ![i] = rec]

\* catch: setError(...); finally: the id leaves the running-set.  The
\* guarded implementation returns false, the others re-throw.
Fail(i, failure) ==
    /\ error' = RunError
    /\ runningReports' = FinallyRunning(runningReports, inv[i].id)
    /\ inv' = SetInv(i, Ended(inv[i], IF variant = GUARDED THEN "false" ELSE "threw",
                              failure, TRUE))

\* runReportNow(id) up to its first await
RunReportNow(id) ==
    /\ Len(inv) < MaxRuns
    /\ LET i == Len(inv) + 1
           found == id \in DOMAIN userReports
           rec == Started(id, IF found THEN userReports[id] ELSE NoFields)
       IN
       \/ \* if (!user || !WEBHOOK_URL) { setError(...); return false }
          /\ variant = GUARDED /\ ~webhookUrl
          /\ error' = "Webhook URL not configured"
          /\ inv' = Append(inv, Ended(rec, "false", "noUrl", TRUE))
          /\ UNCHANGED runningReports
       \/ \* if (!report) { setError('Report not found'); return }
          /\ variant = GUARDED => webhookUrl
          /\ ~found
          /\ error' = "Report not found"
          /\ inv' = Append(inv, Ended(rec, IF variant = GUARDED THEN "false" ELSE "returned",
                                      "notFound", TRUE))
          /\ UNCHANGED runningReports
       \/ \* if (runningReports.has(reportId)) return false
          /\ variant = GUARDED /\ webhookUrl /\ found
          /\ AlreadyRunning(id)
          /\ inv' = Append(inv, Ended(rec, "false", "none", FALSE))
          /\ UNCHANGED <<error, runningReports>>
       \/ \* try { add; if (!webhookUrl) throw } catch { setError; throw } finally { delete }
          /\ variant # GUARDED /\ found /\ ~webhookUrl
          /\ error' = RunError
          /\ runningReports' = FinallyRunning(AddRunning(runningReports, id), id)
          /\ inv' = Append(inv, Ended(rec, "threw", "noUrl", TRUE))
       \/ \* add; await fetch(webhookUrl, { method: 'POST', ... })
          /\ variant # GUARDED /\ found /\ webhookUrl
          /\ runningReports' = AddRunning(runningReports, id)
          /\ inv' = Append(inv, [rec EXCEPT !.pc = "fetch", !.posted = TRUE])
          /\ UNCHANGED error
       \/ \* add; await supabase.from('users').select('name')
          /\ variant = GUARDED /\ webhookUrl /\ found
          /\ ~AlreadyRunning(id)
          /\ runningReports' = AddRunning(runningReports, id)
          /\ inv' = Append(inv, [rec EXCEPT !.pc = "profile"])
          /\ UNCHANGED error
    /\ UNCHANGED <<notifVars, variant, webhookUrl, browserTz, jan1Dow, now, astra_reports,
                   astra_chats, userReports, reportMessages, rendered, timers,
                   checks, dueAtCheck, selected, calc, ops, writes, fn>>

\* the profile query resolves; await fetch(WEBHOOK_URL, { method: 'POST', ... })
ProfileResolve(i) ==
    /\ inv[i].pc = "profile"
    /\ inv' = SetInv(i, [inv[i] EXCEPT !.pc = "fetch", !.posted = TRUE])
    /\ UNCHANGED <<notifVars, variant, webhookUrl, browserTz, jan1Dow, now, astra_reports,
                   astra_chats, userReports, reportMessages, runningReports, rendered,
                   error, timers, checks, dueAtCheck, selected, calc, ops, writes, fn>>

\* fetch rejects, or the response is not ok
WebhookFails(i) ==
    /\ inv[i].pc = "fetch"
    /\ Fail(i, "webhook")
    /\ UNCHANGED <<notifVars, variant, webhookUrl, browserTz, jan1Dow, now, astra_reports,
                   astra_chats, userReports, reportMessages, rendered, timers,
                   checks, dueAtCheck, selected, calc, ops, writes, fn>>

SetTimeoutDropped(pending) == pending

\* setTimeout(() => fetchReportMessages(), 1000) /
\* setTimeout(() => fetchReportHistory(), 2000): one more delayed refresh pending
SetTimeout(pending) == pending + 1

\* the response is ok with body responseText
WebhookOk(i, responseText) ==
    /\ inv[i].pc = "fetch"
    /\ IF variant = GUARDED
       THEN \* setTimeout(() => fetchReportHistory(), 2000); return true
            /\ timers' = SetTimeout(timers)
            /\ runningReports' = FinallyRunning(runningReports, inv[i].id)
            /\ inv' = SetInv(i, Ended([inv[i] EXCEPT !.ok2xx = TRUE, !.body = responseText],
                                      "true", "none", FALSE))
       ELSE \* parse; await supabase.from('astra_chats').insert({...})
            /\ inv' = SetInv(i, [inv[i] EXCEPT
                                   !.pc = "insert", !.ok2xx = TRUE, !.body = responseText,
                                   !.content = ReportContent(responseText),
                                   !.metadata = ReportMetadata(inv[i].report, responseText)])
            /\ UNCHANGED <<timers, runningReports>>
    /\ UNCHANGED <<notifVars, variant, webhookUrl, browserTz, jan1Dow, now, astra_reports,
                   astra_chats, userReports, reportMessages, rendered, error,
                   checks, dueAtCheck, selected, calc, ops, writes, fn>>

\* the insert into astra_chats answers with chatError
InsertFails(i) ==
    /\ inv[i].pc = "insert"
    /\ Fail(i, "persist")
    /\ UNCHANGED <<notifVars, variant, webhookUrl, browserTz, jan1Dow, now, astra_reports,
                   astra_chats, userReports, reportMessages, rendered, timers,
                   checks, dueAtCheck, selected, calc, ops, writes, fn>>

\* the insert succeeds; await fetchReportMessages()
InsertOk(i) ==
    /\ inv[i].pc = "insert"
    /\ astra_chats' = Append(astra_chats, ChatRow(i, inv[i].content, inv[i].metadata))
    /\ inv' = SetInv(i, [inv[i] EXCEPT !.pc = "refresh", !.row = i,
                                       !.inserts = inv[i].inserts + 1,
                                       !.content = "", !.metadata = NoFields])
    /\ UNCHANGED <<notifVars, variant, webhookUrl, browserTz, jan1Dow, now, astra_reports,
                   userReports, reportMessages, runningReports, rendered, error,
                   timers, checks, dueAtCheck, selected, calc, ops, writes, fn>>

\* fetchReportMessages resolves (ok: the list is replaced; otherwise only logged);
\* setTimeout(fetchReportMessages, 1000); then the schedule update or the end
RefreshResolve(i, ok) ==
    /\ inv[i].pc = "refresh"
    /\ reportMessages' = IF ok THEN SelectReportMessages(astra_chats, CurrentUser)
                         ELSE reportMessages
    /\ timers' = SetTimeout(timers)
    /\ IF variant = RESCHEDULING
       THEN \* now, nextRunAt; await supabase.from('astra_reports').update(...).eq('id', id)
            /\ inv' = SetInv(i, [inv[i] EXCEPT
                        !.pc = "update", !.lastRun = now,
                        !.nextRun = IF inv[i].report.schedule_type = "scheduled"
                                    THEN calculateNextRunTime(inv[i].report.schedule_time)
                                    ELSE NULL])
            /\ UNCHANGED runningReports
       ELSE /\ runningReports' = FinallyRunning(runningReports, inv[i].id)
            /\ inv' = SetInv(i, Ended(inv[i], "returned", "none", FALSE))
    /\ UNCHANGED <<notifVars, variant, webhookUrl, browserTz, jan1Dow, now, astra_reports,
                   astra_chats, userReports, rendered, error, checks, dueAtCheck, selected, calc, ops, writes, fn>>

\* the update of astra_reports answers (its error is never read);
\* await fetchUserReports()
UpdateResolve(i, ok) ==
    /\ inv[i].pc = "update"
    /\ astra_reports' =
         IF ok
         THEN UpdateRows(astra_reports,
                         Matches(astra_reports, RunUpdateFilter, inv[i].id, CurrentUser),
                         [last_run_at |-> inv[i].lastRun, next_run_at |-> inv[i].nextRun])
         ELSE astra_reports
    /\ writes' = writes \cup {Write("runReportNow", RunUpdateFilter)}
    /\ inv' = SetInv(i, [inv[i] EXCEPT !.pc = "list", !.lastRun = NULL, !.nextRun = NULL,
                                       !.failure = IF ok THEN "none" ELSE "update"])
    /\ UNCHANGED <<notifVars, variant, webhookUrl, browserTz, jan1Dow, now, astra_chats,
                   userReports, reportMessages, runningReports, rendered, error,
                   timers, checks, dueAtCheck, selected, calc, ops, fn>>

\* fetchUserReports resolves; finally: the id leaves the running-set
ListResolve(i, ok) ==
    /\ inv[i].pc = "list"
    /\ IF ok
       THEN /\ userReports' = SelectUserReports(astra_reports, CurrentUser)
            /\ UNCHANGED error
       ELSE /\ error' = "Failed to load your reports"
            /\ UNCHANGED userReports
    /\ runningReports' = FinallyRunning(runningReports, inv[i].id)
    /\ inv' = SetInv(i, Ended(inv[i], "returned", inv[i].failure, FALSE))
    /\ UNCHANGED <<notifVars, variant, webhookUrl, browserTz, jan1Dow, now, astra_reports,
                   astra_chats, reportMessages, rendered, timers, checks,
                   dueAtCheck, selected, calc, ops, writes, fn>>

\* the delayed refresh: fetchReportMessages() / fetchReportHistory()
TimerFire(ok) ==
    /\ timers > 0
    /\ timers' = timers - 1
    /\ reportMessages' = IF ok THEN SelectReportMessages(astra_chats, CurrentUser)
                         ELSE reportMessages
    /\ error' = IF ~ok /\ variant = GUARDED THEN "Failed to load report history" ELSE error
    /\ UNCHANGED <<notifVars, variant, webhookUrl, browserTz, jan1Dow, now, astra_reports,
                   astra_chats, userReports, runningReports, rendered, inv, checks,
                   dueAtCheck, selected, calc, ops, writes, fn>>

\* React re-renders: runReportNow is re-created over the current running-set
\* (only the guarded implementation lists runningReports in its dependencies)
Render ==
    /\ variant = GUARDED
    /\ rendered # runningReports
    /\ rendered' = runningReports
    /\ UNCHANGED <<notifVars, variant, webhookUrl, browserTz, jan1Dow, now, astra_reports,
                   astra_chats, userReports, reportMessages, runningReports, error,
                   inv, timers, checks, dueAtCheck, selected, calc, ops, writes, fn>>

\* setInterval(() => checkScheduledReports(), 60000)
CheckScheduledReports ==
    /\ checks < MaxChecks
    /\ checks' = checks + 1
    /\ dueAtCheck' = {id \in DueConfigs(userReports) :
                        /\ userReports[id].schedule_type = "scheduled"
                        /\ userReports[id].is_active}
    /\ selected' = selected \cup
                     {[id |-> id, schedule_type |-> userReports[id].schedule_type,
                       is_active |-> userReports[id].is_active] :
                        id \in ScheduledSelection(userReports)}
    /\ UNCHANGED <<notifVars, variant, webhookUrl, browserTz, jan1Dow, now, astra_reports,
                   astra_chats, userReports, reportMessages, runningReports, rendered,
                   error, inv, timers, calc, ops, writes, fn>>

Tick ==
    /\ now < StartInstant + MaxTicks * TickMinutes
    /\ now' = now + TickMinutes
    /\ UNCHANGED <<runVars, browserTz, jan1Dow, calc>>

----------------------------------------------------------------------------
(* The configuration store: createReport, updateReport, toggleReportActive, *)
(* deleteReport, deleteReportMessage                                        *)

MaxOps == 2              \* calls of store operations in one behaviour

UndefinedTime == -2      \* let nextRunAt = updates.next_run_at, when absent

\* the id the database gives to the row inserted by call i
NewId(i) == "n" \o ToString(i)

\* columns the insert leaves to the database
ColumnDefaults ==
    [is_active |-> TRUE, last_run_at |-> NULL, next_run_at |-> NULL,
     created_at |-> now, updated_at |-> now]

\* the next run time as the implementation computes it
NextRunAt(scheduleTime) ==
    IF variant = RESCHEDULING THEN calculateNextRunTime(scheduleTime)
    ELSE nextRunLocal(scheduleTime)

Has(obj, k) == k \in DOMAIN obj

JSONStringifyKeepsUndefined(obj) ==
    IF Has(obj, "next_run_at") /\ obj.next_run_at = UndefinedTime
    THEN [obj EXCEPT !.next_run_at = NULL] ELSE obj

\* the request body: JSON.stringify drops the keys whose value is undefined
JSONStringify(obj) ==
    IF Has(obj, "next_run_at") /\ obj.next_run_at = UndefinedTime
    THEN [k \in DOMAIN obj \ {"next_run_at"} |-> obj[k]] ELSE obj

\* createReport: the row handed to .insert()
createReportPayload(reportData) ==
    IF variant = GUARDED
    THEN [user_id |-> CurrentUser, title |-> reportData.title,
          prompt |-> reportData.prompt, schedule_type |-> reportData.schedule_type,
          schedule_frequency |-> IF Has(reportData, "schedule_frequency")
                                 THEN reportData.schedule_frequency ELSE "daily",
          schedule_time |-> IF Has(reportData, "schedule_time")
                            THEN reportData.schedule_time ELSE <<7, 0>>,
          is_active |-> TRUE]
    ELSE Spread(reportData,
                [user_id |-> CurrentUser,
                 next_run_at |-> IF reportData.schedule_type = "scheduled"
                                 THEN NextRunAt(reportData.schedule_time) ELSE NULL])

\* updateReport: the object handed to .update()
updateReportPayload(id, updates) ==
    IF variant = GUARDED THEN updates
    ELSE LET recompute ==
                 /\ Has(updates, "schedule_type") /\ updates.schedule_type = "scheduled"
                 /\ Has(updates, "schedule_frequency") \/ Has(updates, "schedule_time")
                 /\ id \in DOMAIN userReports
             scheduleTime == IF Has(updates, "schedule_time") THEN updates.schedule_time
                             ELSE userReports[id].schedule_time
             nextRunAt == IF recompute THEN NextRunAt(scheduleTime)
                          ELSE IF Has(updates, "next_run_at") THEN updates.next_run_at
                          ELSE UndefinedTime
         IN  JSONStringify(Spread(updates, [next_run_at |-> nextRunAt, updated_at |-> now]))

StoreErrorSilent(op) == NoError

\* the error string a failed storage call of the operation sets
StoreError(op) ==
    CASE op = "create" -> "Failed to create report"
      [] op \in {"update", "toggle"} -> "Failed to update report"
      [] op = "delete" -> "Failed to delete report"
      [] op = "deleteMessage" -> "Failed to delete report message"

\* what the operation returns after a storage error
FailureResult(op) ==
    CASE op \in {"create", "update"} -> "null"
      [] op \in {"toggle", "delete"} -> IF variant = GUARDED THEN "false" ELSE "void"
      [] op = "deleteMessage" -> "void"

\* what the operation returns after its re-fetch
SuccessResult(op) ==
    CASE op \in {"create", "update"} -> "data"
      [] op \in {"toggle", "delete"} -> IF variant = GUARDED THEN "true" ELSE "void"
      [] op = "deleteMessage" -> "void"

FetchedUserReportsMerged(local, table, user) ==
    [id \in DOMAIN local \cup DOMAIN SelectUserReports(table, user) |->
        IF id \in DOMAIN table THEN table[id] ELSE local[id]]

\* fetchUserReports: setUserReports(data || [])
FetchedUserReports(local, table, user) == SelectUserReports(table, user)

DeleteChatRowsAnyOwner(rows, messageId, user) ==
    SelectSeq(rows, LAMBDA r : r.id # messageId)

\* .delete().eq('id', messageId).eq('user_id', user.id).eq('mode', 'reports')
DeleteChatRows(rows, messageId, user) ==
    SelectSeq(rows, LAMBDA r : ~(r.id = messageId /\ r.user_id = user /\ r.mode = "reports"))

OpInFlight(i) == ops[i].pc \notin {"idle", "ended"}

NoOpInFlight == \A i \in DOMAIN ops : ~OpInFlight(i)

SetOp(i, rec) == [ops EXCEPT ![i] = rec]

\* createReport(reportData) up to the insert
BeginCreate(reportData, form) ==
    /\ ops' = Append(ops, [NoOp EXCEPT !.op = "create", !.id = NewId(Len(ops) + 1),
                                       !.pc = "storage", !.form = form, !.calls = 1,
                                       !.payload = createReportPayload(reportData)])

\* updateReport(id, updates) up to the update
BeginUpdate(op, id, updates, form) ==
    /\ ops' = Append(ops, [NoOp EXCEPT !.op = op, !.id = id, !.pc = "storage",
                                       !.form = form, !.calls = 1,
                                       !.payload = updateReportPayload(id, updates)])

CreateReport(reportData) ==
    /\ Len(ops) < MaxOps
    /\ BeginCreate(reportData, NoFields)
    /\ UNCHANGED <<notifVars, variant, webhookUrl, browserTz, jan1Dow, now, astra_reports,
                   astra_chats, userReports, reportMessages, runningReports, rendered,
                   error, inv, timers, checks, dueAtCheck, selected, calc, writes, fn>>

UpdateReport(id, updates) ==
    /\ Len(ops) < MaxOps
    /\ BeginUpdate("update", id, updates, NoFields)
    /\ UNCHANGED <<notifVars, variant, webhookUrl, browserTz, jan1Dow, now, astra_reports,
                   astra_chats, userReports, reportMessages, runningReports, rendered,
                   error, inv, timers, checks, dueAtCheck, selected, calc, writes, fn>>

\* toggleReportActive(id, isActive): updateReport(id, { is_active: isActive })
ToggleReportActive(id, isActive) ==
    /\ Len(ops) < MaxOps
    /\ BeginUpdate("toggle", id, [is_active |-> isActive], NoFields)
    /\ UNCHANGED <<notifVars, variant, webhookUrl, browserTz, jan1Dow, now, astra_reports,
                   astra_chats, userReports, reportMessages, runningReports, rendered,
                   error, inv, timers, checks, dueAtCheck, selected, calc, writes, fn>>

\* deleteReport(id) up to the delete
DeleteReport(id) ==
    /\ Len(ops) < MaxOps
    /\ ops' = Append(ops, [NoOp EXCEPT !.op = "delete", !.id = id, !.pc = "storage",
                                       !.calls = 1])
    /\ UNCHANGED <<notifVars, variant, webhookUrl, browserTz, jan1Dow, now, astra_reports,
                   astra_chats, userReports, reportMessages, runningReports, rendered,
                   error, inv, timers, checks, dueAtCheck, selected, calc, writes, fn>>

\* deleteReportMessage(messageId) up to the delete
DeleteReportMessage(messageId) ==
    /\ variant # GUARDED
    /\ Len(ops) < MaxOps
    /\ ops' = Append(ops, [NoOp EXCEPT !.op = "deleteMessage", !.id = messageId,
                                       !.pc = "storage", !.calls = 1])
    /\ UNCHANGED <<notifVars, variant, webhookUrl, browserTz, jan1Dow, now, astra_reports,
                   astra_chats, userReports, reportMessages, runningReports, rendered,
                   error, inv, timers, checks, dueAtCheck, selected, calc, writes, fn>>

\* the storage call of a store operation answers with an error: setError,
\* return null / return
StorageFails(i) ==
    /\ ops[i].pc = "storage"
    /\ error' = StoreError(ops[i].op)
    /\ ops' = SetOp(i, EndedOp(ops[i], FailureResult(ops[i].op), TRUE))
    /\ writes' = IF ops[i].op \in {"update", "toggle"}
                 THEN writes \cup {Write("updateReport", UpdateReportFilter)}
                 ELSE IF ops[i].op = "delete"
                 THEN writes \cup {Write("deleteReport", DeleteReportFilter)}
                 ELSE writes
    /\ UNCHANGED <<notifVars, variant, webhookUrl, browserTz, jan1Dow, now, astra_reports,
                   astra_chats, userReports, reportMessages, runningReports, rendered,
                   inv, timers, checks, dueAtCheck, selected, calc, fn>>

\* the insert of createReport succeeds; await fetchUserReports()
CreateStored(i) ==
    /\ ops[i].pc = "storage" /\ ops[i].op = "create"
    /\ astra_reports' = InsertRow(astra_reports, ops[i].id,
                                  Spread(ColumnDefaults, ops[i].payload))
    /\ ops' = SetOp(i, [ops[i] EXCEPT !.pc = "fetch", !.wrote = TRUE, !.refetched = TRUE,
                                      !.calls = ops[i].calls + 1, !.payload = NoFields])
    /\ UNCHANGED <<notifVars, variant, webhookUrl, browserTz, jan1Dow, now, astra_chats,
                   userReports, reportMessages, runningReports, rendered, error, inv,
                   timers, checks, dueAtCheck, selected, calc, writes, fn>>

\* the update of updateReport answers: .single() is an error unless exactly
\* one row was updated; otherwise await fetchUserReports()
UpdateStored(i) ==
    /\ ops[i].pc = "storage" /\ ops[i].op \in {"update", "toggle"}
    /\ writes' = writes \cup {Write("updateReport", UpdateReportFilter)}
    /\ LET rows == Matches(astra_reports, UpdateReportFilter, ops[i].id, CurrentUser)
       IN  IF rows = {}
           THEN /\ error' = StoreError(ops[i].op)
                /\ ops' = SetOp(i, EndedOp(ops[i], FailureResult(ops[i].op), TRUE))
                /\ UNCHANGED astra_reports
           ELSE /\ astra_reports' = UpdateRows(astra_reports, rows, ops[i].payload)
                /\ ops' = SetOp(i, [ops[i] EXCEPT !.pc = "fetch", !.wrote = TRUE,
                                                  !.refetched = TRUE,
                                                  !.calls = ops[i].calls + 1,
                                                  !.payload = NoFields])
                /\ UNCHANGED error
    /\ UNCHANGED <<notifVars, variant, webhookUrl, browserTz, jan1Dow, now, astra_chats,
                   userReports, reportMessages, runningReports, rendered, inv,
                   timers, checks, dueAtCheck, selected, calc, fn>>

\* the delete of deleteReport succeeds; await fetchUserReports()
DeleteStored(i) ==
    /\ ops[i].pc = "storage" /\ ops[i].op = "delete"
    /\ writes' = writes \cup {Write("deleteReport", DeleteReportFilter)}
    /\ LET rows == Matches(astra_reports, DeleteReportFilter, ops[i].id, CurrentUser)
       IN  /\ astra_reports' = DeleteRows(astra_reports, rows)
           /\ ops' = SetOp(i, [ops[i] EXCEPT !.pc = "fetch", !.wrote = rows # {},
                                             !.refetched = TRUE,
                                             !.calls = ops[i].calls + 1])
    /\ UNCHANGED <<notifVars, variant, webhookUrl, browserTz, jan1Dow, now, astra_chats,
                   userReports, reportMessages, runningReports, rendered, error, inv,
                   timers, checks, dueAtCheck, selected, calc, fn>>

\* the delete of deleteReportMessage succeeds; await fetchReportMessages()
MessageDeleted(i) ==
    /\ ops[i].pc = "storage" /\ ops[i].op = "deleteMessage"
    /\ astra_chats' = DeleteChatRows(astra_chats, ops[i].id, CurrentUser)
    /\ ops' = SetOp(i, [ops[i] EXCEPT !.pc = "fetchMessages",
                                      !.wrote = astra_chats' # astra_chats,
                                      !.refetched = TRUE, !.calls = ops[i].calls + 1])
    /\ UNCHANGED <<notifVars, variant, webhookUrl, browserTz, jan1Dow, now, astra_reports,
                   userReports, reportMessages, runningReports, rendered, error, inv,
                   timers, checks, dueAtCheck, selected, calc, writes, fn>>

\* fetchUserReports() of a store operation resolves; the operation returns
FetchResolve(i, ok) ==
    /\ ops[i].pc = "fetch"
    /\ IF ok
       THEN /\ userReports' = FetchedUserReports(userReports, astra_reports, CurrentUser)
            /\ UNCHANGED error
       ELSE /\ error' = "Failed to load your reports"
            /\ UNCHANGED userReports
    /\ ops' = SetOp(i, EndedOp([ops[i] EXCEPT !.listed = ok], SuccessResult(ops[i].op), FALSE))
    /\ UNCHANGED <<notifVars, variant, webhookUrl, browserTz, jan1Dow, now, astra_reports,
                   astra_chats, reportMessages, runningReports, rendered, inv, timers,
                   checks, dueAtCheck, selected, calc, writes, fn>>

\* fetchReportMessages() of deleteReportMessage resolves (its error is only logged)
MessagesResolve(i, ok) ==
    /\ ops[i].pc = "fetchMessages"
    /\ reportMessages' = IF ok THEN SelectReportMessages(astra_chats, CurrentUser)
                         ELSE reportMessages
    /\ ops' = SetOp(i, EndedOp(ops[i], SuccessResult(ops[i].op), FALSE))
    /\ UNCHANGED <<notifVars, variant, webhookUrl, browserTz, jan1Dow, now, astra_reports,
                   astra_chats, userReports, runningReports, rendered, error, inv,
                   timers, checks, dueAtCheck, selected, calc, writes, fn>>

\* inputs of the store operations
ReportData(title, type, frequency, time) ==
    [title |-> title, prompt |-> "P", schedule_type |-> type,
     schedule_frequency |-> frequency, schedule_time |-> time]

CreateInputs == {ReportData("New", "scheduled", "daily", <<9, 0>>),
                 ReportData("New", "manual", "daily", <<7, 0>>)}

UpdateInputs == {[title |-> "Renamed"],
                 [schedule_time |-> <<9, 0>>],
                 ReportData("Renamed", "scheduled", "daily", <<7, 0>>),
                 ReportData("Daily brief", "scheduled", "daily", <<9, 0>>)}

TargetIds == {"r1", "r3"}

MessageIds == {ReportRowId, OtherRowId, PrivateRowId}

InitStore ==
    /\ \E tz \in {EASTERN, "Asia/Tokyo"} : Mounted(tz, TRUE, StoredChats)
    /\ webhookUrl = TRUE

\* a session in which the store operations are called one after the other
NextStore ==
    \/ \E d \in CreateInputs : NoOpInFlight /\ CreateReport(d)
    \/ \E id \in TargetIds, u \in UpdateInputs : NoOpInFlight /\ UpdateReport(id, u)
    \/ \E id \in TargetIds, a \in BOOLEAN : NoOpInFlight /\ ToggleReportActive(id, a)
    \/ \E id \in TargetIds : NoOpInFlight /\ DeleteReport(id)
    \/ \E m \in MessageIds : NoOpInFlight /\ DeleteReportMessage(m)
    \/ \E i \in DOMAIN ops : StorageFails(i)
    \/ \E i \in DOMAIN ops : CreateStored(i)
    \/ \E i \in DOMAIN ops : UpdateStored(i)
    \/ \E i \in DOMAIN ops : DeleteStored(i)
    \/ \E i \in DOMAIN ops : MessageDeleted(i)
    \/ \E i \in DOMAIN ops, ok \in BOOLEAN : FetchResolve(i, ok)
    \/ \E i \in DOMAIN ops, ok \in BOOLEAN : MessagesResolve(i, ok)

SpecStore == InitStore /\ [][NextStore]_vars

----------------------------------------------------------------------------
(* The forms: ManageReportsModal.handleSubmit, CreateReportModal.handleSubmit *)

\* String.prototype.trim() on the texts a form field takes here
Trim(s) ==
    CASE s = " " -> ""
      [] s = "  " -> ""
      [] s = " T " -> "T"
      [] OTHER -> s

Texts == {"", "  ", " T "}

\* formData of ManageReportsModal
ManageForms ==
    {[title |-> t, prompt |-> p, schedule_type |-> s[1], schedule_frequency |-> s[2],
      schedule_time |-> <<7, 0>>] :
        t \in Texts, p \in {"", "P"},
        s \in {<<"scheduled", "daily">>, <<"scheduled", "weekly">>, <<"manual", "daily">>}}

\* formData of CreateReportModal
CreateForms ==
    {[title |-> t, prompt |-> p, frequency |-> f, schedule_time |-> <<7, 0>>,
      start_date |-> d, enabled |-> TRUE] :
        t \in Texts, p \in {"", "P"}, f \in {"daily", "weekly", "monthly"},
        d \in {"", "2025-01-06"}}

\* if (!formData.title.trim() || !formData.prompt.trim()) return
MissingText(formData) == Trim(formData.title) = "" \/ Trim(formData.prompt) = ""

\* if ((frequency === 'weekly' || frequency === 'monthly') && !start_date) return
MissingStartDate(formData) ==
    formData.frequency \in {"weekly", "monthly"} /\ formData.start_date = ""

Blocked(formData) ==
    Append(ops, EndedOp([NoOp EXCEPT !.op = "submit", !.form = formData], "blocked", FALSE))

\* ManageReportsModal.handleSubmit: editingReport is the id being edited, or ""
HandleSubmit(formData, editingReport) ==
    /\ Len(ops) < MaxOps
    /\ \/ /\ MissingText(formData)
          /\ ops' = Blocked(formData)
       \/ /\ ~MissingText(formData)
          /\ editingReport # ""
          /\ BeginUpdate("update", editingReport, formData, formData)
       \/ /\ ~MissingText(formData)
          /\ editingReport = ""
          /\ BeginCreate(formData, formData)
    /\ UNCHANGED <<notifVars, variant, webhookUrl, browserTz, jan1Dow, now, astra_reports,
                   astra_chats, userReports, reportMessages, runningReports, rendered,
                   error, inv, timers, checks, dueAtCheck, selected, calc, writes, fn>>

\* CreateReportModal.handleSubmit: onCreateReport(formData); onClose()
CreateReportModalSubmit(formData) ==
    /\ Len(ops) < MaxOps
    /\ \/ /\ MissingText(formData) \/ MissingStartDate(formData)
          /\ ops' = Blocked(formData)
       \/ /\ ~MissingText(formData) /\ ~MissingStartDate(formData)
          /\ ops' = Append(ops, EndedOp([NoOp EXCEPT !.op = "submit", !.form = formData],
                                        "onCreateReport", FALSE))
    /\ UNCHANGED <<notifVars, variant, webhookUrl, browserTz, jan1Dow, now, astra_reports,
                   astra_chats, userReports, reportMessages, runningReports, rendered,
                   error, inv, timers, checks, dueAtCheck, selected, calc, writes, fn>>

InitForm == Mounted(EASTERN, TRUE, <<>>) /\ webhookUrl = TRUE

\* a session with one submission of a form
NextForm ==
    \/ \E f \in ManageForms, e \in {"", "r1"} : Len(ops) = 0 /\ HandleSubmit(f, e)
    \/ \E f \in CreateForms : Len(ops) = 0 /\ CreateReportModalSubmit(f)
    \/ \E i \in DOMAIN ops : StorageFails(i)
    \/ \E i \in DOMAIN ops : CreateStored(i)
    \/ \E i \in DOMAIN ops : UpdateStored(i)
    \/ \E i \in DOMAIN ops, ok \in BOOLEAN : FetchResolve(i, ok)

SpecForm == InitForm /\ [][NextForm]_vars

----------------------------------------------------------------------------
(* The generate-report function                                             *)

FnRowId == 201           \* the id the database gives to the row the function inserts

Users == {CurrentUser, OtherUser}

\* a report id that names no row of astra_reports
MissingId == "r0"
ReportIds == ConfigIds \cup {MissingId}

\* the filter of the select of the report:
\* .eq('id', reportId).eq('user_id', userId).single()
FnSelectFilterIdOnly == {"id"}
FnSelectFilter == {"id", "user_id"}

\* the configuration checks: the message of the Error thrown, "" when none
FnConfigErrorNoKeyCheck(env) ==
    IF ~env.supabaseUrl \/ ~env.supabaseServiceKey
    THEN "Missing Supabase configuration" ELSE ""

FnConfigError(env) ==
    IF ~env.supabaseUrl \/ ~env.supabaseServiceKey
    THEN "Missing Supabase configuration"
    ELSE IF ~env.geminiApiKey
    THEN "VITE_GEMINI_API_KEY environment variable is not set"
    ELSE ""

\* catch: the 500 response { success: false, error: error.message }
FnFails(message) ==
    [fn EXCEPT !.pc = "ended", !.status = 500, !.success = FALSE, !.error = message,
               !.report = NoFields, !.reportText = ""]

\* a POST arrives with body { userId, reportId, prompt }: the configuration
\* checks, then the select of the report
FnRequest(userId, reportId) ==
    /\ fn.pc = "idle"
    /\ LET req == [fn EXCEPT !.userId = userId, !.reportId = reportId]
       IN  fn' = IF FnConfigError(fn) # ""
                 THEN [FnFails(FnConfigError(fn)) EXCEPT !.userId = userId,
                                                         !.reportId = reportId]
                 ELSE [req EXCEPT !.pc = "load", !.calls = {"select"}]
    /\ UNCHANGED <<notifVars, variant, webhookUrl, browserTz, jan1Dow, now, astra_reports,
                   astra_chats, userReports, reportMessages, runningReports, rendered,
                   error, inv, timers, checks, dueAtCheck, selected, calc, ops, writes>>

\* .select('*').eq('id', reportId).eq('user_id', userId).single() answers
FnLoadResolve(ok) ==
    /\ fn.pc = "load"
    /\ LET rows == Matches(astra_reports, FnSelectFilter, fn.reportId, fn.userId)
       IN  fn' = IF ok /\ rows # {}
                 THEN [fn EXCEPT !.pc = "generate", !.calls = fn.calls \cup {"generate"},
                                 !.report = astra_reports[fn.reportId]]
                 ELSE FnFails("Report not found or access denied")
    /\ UNCHANGED <<notifVars, variant, webhookUrl, browserTz, jan1Dow, now, astra_reports,
                   astra_chats, userReports, reportMessages, runningReports, rendered,
                   error, inv, timers, checks, dueAtCheck, selected, calc, ops, writes>>

\* model.generateContent(prompt) answers, or throws
FnGenerateResolve(ok) ==
    /\ fn.pc = "generate"
    /\ fn' = IF ok
             THEN [fn EXCEPT !.pc = "insert", !.calls = fn.calls \cup {"insert"},
                             !.reportText = "G"]
             ELSE FnFails("An unexpected error occurred")
    /\ UNCHANGED <<notifVars, variant, webhookUrl, browserTz, jan1Dow, now, astra_reports,
                   astra_chats, userReports, reportMessages, runningReports, rendered,
                   error, inv, timers, checks, dueAtCheck, selected, calc, ops, writes>>

\* the row the function inserts into astra_chats
FnChatRow(userId, reportText, report) ==
    [id |-> FnRowId, user_id |-> userId, message |-> reportText,
     message_type |-> "astra", mode |-> "reports",
     metadata |-> [report_title |-> report.title,
                   report_schedule |-> report.schedule_time,
                   report_frequency |-> report.schedule_frequency,
                   is_manual_run |-> TRUE,
                   executed_at |-> now,
                   visualization_mode |-> "text"]]

\* the insert into astra_chats answers
FnInsertResolve(ok) ==
    /\ fn.pc = "insert"
    /\ IF ok
       THEN /\ astra_chats' = Append(astra_chats,
                                     FnChatRow(fn.userId, fn.reportText, fn.report))
            /\ fn' = [fn EXCEPT !.pc = "update", !.calls = fn.calls \cup {"update"},
                                !.report = NoFields, !.reportText = ""]
       ELSE /\ fn' = FnFails("Failed to save report")
            /\ UNCHANGED astra_chats
    /\ UNCHANGED <<notifVars, variant, webhookUrl, browserTz, jan1Dow, now, astra_reports,
                   userReports, reportMessages, runningReports, rendered,
                   error, inv, timers, checks, dueAtCheck, selected, calc, ops, writes>>

\* the update of last_run_at answers (its result is never read); the 200
\* response { success: true }.  updated records whether the column was written
FnUpdateResolve(ok) ==
    /\ fn.pc = "update"
    /\ astra_reports' =
         IF ok
         THEN UpdateRows(astra_reports,
                         Matches(astra_reports, FnUpdateFilter, fn.reportId, fn.userId),
                         [last_run_at |-> now])
         ELSE astra_reports
    /\ writes' = writes \cup {Write("generate-report", FnUpdateFilter)}
    /\ fn' = [fn EXCEPT !.pc = "ended", !.status = 200, !.success = TRUE,
                        !.updated = ok]
    /\ UNCHANGED <<notifVars, variant, webhookUrl, browserTz, jan1Dow, now, astra_chats,
                   userReports, reportMessages, runningReports, rendered,
                   error, inv, timers, checks, dueAtCheck, selected, calc, ops>>

InitFunction ==
    /\ Client(EASTERN, TRUE, <<>>)
    /\ \E u, k, g \in BOOLEAN :
         fn = [FnIdle EXCEPT !.supabaseUrl = u, !.supabaseServiceKey = k,
                             !.geminiApiKey = g]

\* a session with one invocation of runReportNow and one request to the
\* generate-report function
NextFunction ==
    \/ \E id \in ConfigIds : Len(inv) = 0 /\ RunReportNow(id)
    \/ \E i \in DOMAIN inv : ProfileResolve(i)
    \/ \E i \in DOMAIN inv : WebhookFails(i)
    \/ \E i \in DOMAIN inv : WebhookOk(i, JsonOutput)
    \/ \E i \in DOMAIN inv : InsertFails(i)
    \/ \E i \in DOMAIN inv : InsertOk(i)
    \/ \E i \in DOMAIN inv : RefreshResolve(i, TRUE)
    \/ \E i \in DOMAIN inv : UpdateResolve(i, TRUE)
    \/ \E i \in DOMAIN inv : ListResolve(i, TRUE)
    \/ TimerFire(TRUE)
    \/ Render
    \/ \E u \in Users, r \in ReportIds : FnRequest(u, r)
    \/ \E ok \in BOOLEAN : FnLoadResolve(ok)
    \/ \E ok \in BOOLEAN : FnGenerateResolve(ok)
    \/ \E ok \in BOOLEAN : FnInsertResolve(ok)
    \/ \E ok \in BOOLEAN : FnUpdateResolve(ok)

SpecFunction == InitFunction /\ [][NextFunction]_vars

----------------------------------------------------------------------------
(* Runs and deletions of execution rows                                     *)

\* a session with one invocation of runReportNow and deletions of rows
NextMessages ==
    \/ \E id \in ConfigIds : Len(inv) = 0 /\ RunReportNow(id)
    \/ \E i \in DOMAIN inv : ProfileResolve(i)
    \/ \E i \in DOMAIN inv : WebhookFails(i)
    \/ \E i \in DOMAIN inv : WebhookOk(i, JsonOutput)
    \/ \E i \in DOMAIN inv : InsertFails(i)
    \/ \E i \in DOMAIN inv : InsertOk(i)
    \/ \E i \in DOMAIN inv : RefreshResolve(i, TRUE)
    \/ \E i \in DOMAIN inv : UpdateResolve(i, TRUE)
    \/ \E i \in DOMAIN inv : ListResolve(i, TRUE)
    \/ TimerFire(TRUE)
    \/ Render
    \/ \E m \in MessageIds \cup {1} : NoOpInFlight /\ DeleteReportMessage(m)
    \/ \E i \in DOMAIN ops : StorageFails(i)
    \/ \E i \in DOMAIN ops : MessageDeleted(i)
    \/ \E i \in DOMAIN ops, ok \in BOOLEAN : MessagesResolve(i, ok)

InitMessages == Mounted(EASTERN, TRUE, StoredChats)

SpecMessages == InitMessages /\ [][NextMessages]_vars

----------------------------------------------------------------------------
(* Specifications of the report runs                                        *)

\* a session in which invocations of runReportNow overlap; the read-backs
\* succeed and the webhook answers with the JSON body
Next ==
    \/ \E id \in ConfigIds : RunReportNow(id)
    \/ \E i \in DOMAIN inv : ProfileResolve(i)
    \/ \E i \in DOMAIN inv : WebhookFails(i)
    \/ \E i \in DOMAIN inv : WebhookOk(i, JsonOutput)
    \/ \E i \in DOMAIN inv : InsertFails(i)
    \/ \E i \in DOMAIN inv : InsertOk(i)
    \/ \E i \in DOMAIN inv : RefreshResolve(i, TRUE)
    \/ \E i \in DOMAIN inv : UpdateResolve(i, TRUE)
    \/ \E i \in DOMAIN inv : ListResolve(i, TRUE)
    \/ TimerFire(TRUE)
    \/ Render

Spec == Init /\ [][Next]_vars

\* a session with one invocation of runReportNow, every response body, the
\* clock and the periodic check
NextTimed ==
    \/ \E id \in ConfigIds : Len(inv) = 0 /\ RunReportNow(id)
    \/ \E i \in DOMAIN inv : ProfileResolve(i)
    \/ \E i \in DOMAIN inv : WebhookFails(i)
    \/ \E i \in DOMAIN inv, b \in Bodies : WebhookOk(i, b)
    \/ \E i \in DOMAIN inv : InsertFails(i)
    \/ \E i \in DOMAIN inv : InsertOk(i)
    \/ \E i \in DOMAIN inv, ok \in BOOLEAN : RefreshResolve(i, ok)
    \/ \E i \in DOMAIN inv, ok \in BOOLEAN : UpdateResolve(i, ok)
    \/ \E i \in DOMAIN inv, ok \in BOOLEAN : ListResolve(i, ok)
    \/ \E ok \in BOOLEAN : TimerFire(ok)
    \/ Render
    \/ CheckScheduledReports
    \/ Tick

SpecTimed == InitTimed /\ [][NextTimed]_vars

----------------------------------------------------------------------------
(* The next-run-time calculators on their own                               *)

CalcHours == 0..23
CalcTimes == {<<7, 0>>, <<0, 0>>, <<1, 30>>, <<14, 0>>, <<23, 0>>}
CalcDays == {20, SecondSundayOfMarch - 1, SecondSundayOfMarch, StartDay,
             FirstSundayOfNovember - 1, FirstSundayOfNovember}

InitCalc ==
    /\ variant = CURRENT
    /\ webhookUrl = TRUE
    /\ browserTz \in TimeZones
    /\ jan1Dow \in 0..6
    /\ now \in {d * MinPerDay + h * MinPerHour : d \in CalcDays, h \in CalcHours}
    /\ astra_reports = [id \in {} |-> NoFields]
    /\ astra_chats = <<>>
    /\ userReports = [id \in {} |-> NoFields]
    /\ reportMessages = <<>>
    /\ runningReports = {}
    /\ rendered = {}
    /\ error = NoError
    /\ inv = <<>>
    /\ timers = 0
    /\ checks = 0
    /\ dueAtCheck = {}
    /\ selected = {}
    /\ calc \in {[CalcOff EXCEPT !.pc = "input", !.scheduleTime = t] : t \in CalcTimes}
    /\ ops = <<>>
    /\ writes = {}
    /\ fn = FnIdle
    /\ NotificationsMounted

\* createReport computes next_run_at for a scheduled report
CalcCreateReport ==
    /\ calc.pc = "input"
    /\ calc' = [calc EXCEPT !.pc = "done", !.fn = "createReport",
                            !.result = nextRunLocal(calc.scheduleTime)]
    /\ UNCHANGED <<runVars, browserTz, jan1Dow, now>>

\* calculateNextRunTime(scheduleTime)
CalcNextRunTime ==
    /\ calc.pc = "input"
    /\ calc' = [calc EXCEPT !.pc = "done", !.fn = "calculateNextRunTime",
                            !.result = calculateNextRunTime(calc.scheduleTime)]
    /\ UNCHANGED <<runVars, browserTz, jan1Dow, now>>

\* isEasternDaylightTime(new Date())
CalcIsEasternDaylightTime ==
    /\ calc.pc = "input"
    /\ calc' = [calc EXCEPT !.pc = "tested", !.fn = "isEasternDaylightTime",
                            !.daylight = isEasternDaylightTime(now)]
    /\ UNCHANGED <<runVars, browserTz, jan1Dow, now>>

NextCalc ==
    \/ CalcCreateReport
    \/ CalcNextRunTime
    \/ CalcIsEasternDaylightTime

SpecCalc == InitCalc /\ [][NextCalc]_vars

----------------------------------------------------------------------------
(* Fairness: every network and storage call eventually resolves             *)

Resolves ==
    \E i \in DOMAIN inv :
        \/ ProfileResolve(i)
        \/ WebhookFails(i)
        \/ WebhookOk(i, JsonOutput)
        \/ InsertFails(i)
        \/ InsertOk(i)
        \/ RefreshResolve(i, TRUE)
        \/ UpdateResolve(i, TRUE)
        \/ ListResolve(i, TRUE)

FairSpec == Init /\ [][Next]_vars /\ WF_vars(Resolves)

----------------------------------------------------------------------------
(* The delayed refresh of the execution list                                *)

\* a session with one invocation of runReportNow whose read-back right after
\* the insert may fail, deletions of execution rows, and the delayed refresh
NextRefresh ==
    \/ \E id \in ConfigIds : Len(inv) = 0 /\ RunReportNow(id)
    \/ \E i \in DOMAIN inv : ProfileResolve(i)
    \/ \E i \in DOMAIN inv : WebhookFails(i)
    \/ \E i \in DOMAIN inv : WebhookOk(i, JsonOutput)
    \/ \E i \in DOMAIN inv : InsertFails(i)
    \/ \E i \in DOMAIN inv : InsertOk(i)
    \/ \E i \in DOMAIN inv, ok \in BOOLEAN : RefreshResolve(i, ok)
    \/ \E i \in DOMAIN inv : UpdateResolve(i, TRUE)
    \/ \E i \in DOMAIN inv : ListResolve(i, TRUE)
    \/ TimerFire(TRUE)
    \/ Render
    \/ \E m \in {ReportRowId, 1} : NoOpInFlight /\ DeleteReportMessage(m)
    \/ \E i \in DOMAIN ops : StorageFails(i)
    \/ \E i \in DOMAIN ops : MessageDeleted(i)
    \/ \E i \in DOMAIN ops, ok \in BOOLEAN : MessagesResolve(i, ok)

\* every pending call is answered, and a timer that was set fires
ResolvesRefresh ==
    \/ \E i \in DOMAIN inv :
         \/ ProfileResolve(i)
         \/ WebhookFails(i)
         \/ WebhookOk(i, JsonOutput)
         \/ InsertFails(i)
         \/ InsertOk(i)
         \/ \E ok \in BOOLEAN : RefreshResolve(i, ok)
         \/ UpdateResolve(i, TRUE)
         \/ ListResolve(i, TRUE)
    \/ \E i \in DOMAIN ops :
         \/ StorageFails(i)
         \/ MessageDeleted(i)
         \/ \E ok \in BOOLEAN : MessagesResolve(i, ok)

InitRefresh == InitMessages /\ webhookUrl = TRUE

SpecRefresh ==
    /\ InitRefresh
    /\ [][NextRefresh]_vars
    /\ WF_vars(ResolvesRefresh)
    /\ WF_vars(TimerFire(TRUE))

----------------------------------------------------------------------------
(* Store operations and list fetches that overlap                           *)

\* fetchUserReports() called on its own (the mount effect, or a caller of the
\* hook) up to its select
FetchUserReports ==
    /\ Len(ops) < MaxOps
    /\ ops' = Append(ops, [NoOp EXCEPT !.op = "fetch", !.pc = "fetch", !.calls = 1])
    /\ UNCHANGED <<notifVars, variant, webhookUrl, browserTz, jan1Dow, now, astra_reports,
                   astra_chats, userReports, reportMessages, runningReports, rendered,
                   error, inv, timers, checks, dueAtCheck, selected, calc, writes, fn>>

\* the database serves the select of a fetchUserReports(): the response, with
\* the rows as they are now, is on its way
FetchServed(i) ==
    /\ ops[i].pc = "fetch"
    /\ ops' = SetOp(i, [ops[i] EXCEPT !.pc = "response",
                                      !.data = SelectUserReports(astra_reports,
                                                                 CurrentUser)])
    /\ UNCHANGED <<notifVars, variant, webhookUrl, browserTz, jan1Dow, now, astra_reports,
                   astra_chats, userReports, reportMessages, runningReports, rendered,
                   error, inv, timers, checks, dueAtCheck, selected, calc, writes, fn>>

\* the response arrives: setUserReports(data || []); the operation returns
FetchArrives(i) ==
    /\ ops[i].pc = "response"
    /\ userReports' = ops[i].data
    /\ ops' = SetOp(i, EndedOp([ops[i] EXCEPT !.listed = TRUE, !.data = NoFields],
                               IF ops[i].op = "fetch" THEN "void"
                               ELSE SuccessResult(ops[i].op), FALSE))
    /\ UNCHANGED <<notifVars, variant, webhookUrl, browserTz, jan1Dow, now, astra_reports,
                   astra_chats, reportMessages, runningReports, rendered, error, inv,
                   timers, checks, dueAtCheck, selected, calc, writes, fn>>

RaceInputs == {ReportData("New", "manual", "daily", <<7, 0>>)}

\* a session in which store operations and fetches are called while others
\* are awaiting their answers, and the answers arrive in any order
NextRace ==
    \/ \E d \in RaceInputs : CreateReport(d)
    \/ \E a \in BOOLEAN : ToggleReportActive("r1", a)
    \/ DeleteReport("r1")
    \/ FetchUserReports
    \/ \E i \in DOMAIN ops : StorageFails(i)
    \/ \E i \in DOMAIN ops : CreateStored(i)
    \/ \E i \in DOMAIN ops : UpdateStored(i)
    \/ \E i \in DOMAIN ops : DeleteStored(i)
    \/ \E i \in DOMAIN ops : FetchServed(i)
    \/ \E i \in DOMAIN ops : FetchArrives(i)

InitRace == Mounted(EASTERN, TRUE, <<>>) /\ webhookUrl = TRUE

SpecRace == InitRace /\ [][NextRace]_vars

----------------------------------------------------------------------------
(* useAppNotifications                                                      *)

MaxCalls == 3            \* calls of notification operations in one behaviour

NotificationIds == {"a1", "a2", "a3"}

\* .order('created_at', { ascending: false }): the ids, newest first
NewestFirst == <<"a3", "a2", "a1", "b1">>

\* a row as the client holds it
Notification(id, row) == [id |-> id, user_id |-> row.user_id, is_read |-> row.is_read]

\* .select('*').eq('user_id', user.id).order(...) and, unless includeRead,
\* .eq('is_read', false)
RECURSIVE SelectNotifications(_, _, _, _)
SelectNotifications(table, order, user, includeRead) ==
    IF order = <<>> THEN <<>>
    ELSE LET id == Head(order)
             rest == SelectNotifications(table, Tail(order), user, includeRead)
         IN  IF /\ id \in DOMAIN table
                /\ table[id].user_id = user
                /\ includeRead \/ ~table[id].is_read
             THEN <<Notification(id, table[id])>> \o rest ELSE rest

\* data.filter(n => !n.is_read).length
Unread(list) == Cardinality({k \in DOMAIN list : ~list[k].is_read})

\* Math.max(0, prev - 1)
Decrement(prev) == IF prev - 1 > 0 THEN prev - 1 ELSE 0

\* prev.map(n => n.id === id ? { ...n, is_read: true } : n)
MapRead(list, id) ==
    [k \in DOMAIN list |-> IF list[k].id = id THEN [list[k] EXCEPT !.is_read = TRUE]
                           ELSE list[k]]

\* prev.map(n => ({ ...n, is_read: true }))
MapAllRead(list) == [k \in DOMAIN list |-> [list[k] EXCEPT !.is_read = TRUE]]

\* prev.map(n => n.id === updated.id ? updated : n)
MapReplace(list, updated) ==
    [k \in DOMAIN list |-> IF list[k].id = updated.id THEN updated ELSE list[k]]

\* prev.filter(n => n.id !== id)
FilterOut(list, id) == SelectSeq(list, LAMBDA n : n.id # id)

\* the postgres_changes events of the rows a write changed, for the
\* subscription filter user_id=eq.<user>
RECURSIVE ChangeEvents(_, _, _, _, _)
ChangeEvents(event, table, order, rows, user) ==
    IF order = <<>> THEN <<>>
    ELSE LET id == Head(order)
             rest == ChangeEvents(event, table, Tail(order), rows, user)
         IN  IF id \in rows /\ table[id].user_id = user
             THEN <<[event |-> event, new |-> Notification(id, table[id])]>> \o rest
             ELSE rest

NoCall == [op |-> "", id |-> "", includeRead |-> FALSE, pc |-> "idle",
           result |-> "none", seen |-> <<>>]

EndedCall(rec, result) == [rec EXCEPT !.pc = "ended", !.result = result, !.seen = <<>>]

SetCall(i, rec) == [ncalls EXCEPT ![i] = rec]

NoCallInFlight == \A i \in DOMAIN ncalls : ncalls[i].pc = "ended"

\* fetchNotifications(includeRead) up to its select
FetchNotifications(includeRead) ==
    /\ Len(ncalls) < MaxCalls
    /\ ncalls' = Append(ncalls, [NoCall EXCEPT !.op = "fetchNotifications",
                                               !.includeRead = includeRead,
                                               !.pc = "storage"])
    /\ UNCHANGED <<vars_reports, astra_notifications, notifications, unreadCount,
                   notificationsError, channel>>

\* the select answers: the list and the count are set from data, or the
\* error is set
FetchNotificationsResolve(i, ok) ==
    /\ ncalls[i].pc = "storage" /\ ncalls[i].op = "fetchNotifications"
    /\ IF ok
       THEN LET data == SelectNotifications(astra_notifications, NewestFirst,
                                            CurrentUser, ncalls[i].includeRead)
            IN  /\ notifications' = data
                /\ unreadCount' = Unread(data)
                /\ UNCHANGED notificationsError
       ELSE /\ notificationsError' = "Failed to load notifications"
            /\ UNCHANGED <<notifications, unreadCount>>
    /\ ncalls' = SetCall(i, EndedCall(ncalls[i], "void"))
    /\ UNCHANGED <<vars_reports, astra_notifications, channel>>

\* markAsRead(notificationId) up to its update
MarkAsRead(id) ==
    /\ Len(ncalls) < MaxCalls
    /\ ncalls' = Append(ncalls, [NoCall EXCEPT !.op = "markAsRead", !.id = id,
                                               !.pc = "storage"])
    /\ UNCHANGED <<vars_reports, astra_notifications, notifications, unreadCount,
                   notificationsError, channel>>

\* the update .eq('id', id).eq('user_id', user.id) answers; on success the
\* local row is marked and the count is decremented
MarkAsReadResolve(i, ok) ==
    /\ ncalls[i].pc = "storage" /\ ncalls[i].op = "markAsRead"
    /\ IF ok
       THEN LET rows == {r \in DOMAIN astra_notifications :
                            /\ r = ncalls[i].id
                            /\ astra_notifications[r].user_id = CurrentUser}
                table == [r \in DOMAIN astra_notifications |->
                             IF r \in rows
                             THEN [astra_notifications[r] EXCEPT !.is_read = TRUE]
                             ELSE astra_notifications[r]]
            IN  /\ astra_notifications' = table
                /\ channel' = channel \o ChangeEvents("UPDATE", table, NewestFirst,
                                                      rows, CurrentUser)
                /\ notifications' = MapRead(notifications, ncalls[i].id)
                /\ unreadCount' = Decrement(unreadCount)
                /\ ncalls' = SetCall(i, EndedCall(ncalls[i], "true"))
       ELSE /\ ncalls' = SetCall(i, EndedCall(ncalls[i], "false"))
            /\ UNCHANGED <<astra_notifications, channel, notifications, unreadCount>>
    /\ UNCHANGED <<vars_reports, notificationsError>>

\* markAllAsRead() up to its update
MarkAllAsRead ==
    /\ Len(ncalls) < MaxCalls
    /\ ncalls' = Append(ncalls, [NoCall EXCEPT !.op = "markAllAsRead", !.pc = "storage"])
    /\ UNCHANGED <<vars_reports, astra_notifications, notifications, unreadCount,
                   notificationsError, channel>>

\* the update .eq('user_id', user.id).eq('is_read', false) answers; on
\* success every local row is marked and the count is set to 0
MarkAllAsReadResolve(i, ok) ==
    /\ ncalls[i].pc = "storage" /\ ncalls[i].op = "markAllAsRead"
    /\ IF ok
       THEN LET rows == {r \in DOMAIN astra_notifications :
                            /\ astra_notifications[r].user_id = CurrentUser
                            /\ ~astra_notifications[r].is_read}
                table == [r \in DOMAIN astra_notifications |->
                             IF r \in rows
                             THEN [astra_notifications[r] EXCEPT !.is_read = TRUE]
                             ELSE astra_notifications[r]]
            IN  /\ astra_notifications' = table
                /\ channel' = channel \o ChangeEvents("UPDATE", table, NewestFirst,
                                                      rows, CurrentUser)
                /\ notifications' = MapAllRead(notifications)
                /\ unreadCount' = 0
                /\ ncalls' = SetCall(i, EndedCall(ncalls[i], "true"))
       ELSE /\ ncalls' = SetCall(i, EndedCall(ncalls[i], "false"))
            /\ UNCHANGED <<astra_notifications, channel, notifications, unreadCount>>
    /\ UNCHANGED <<vars_reports, notificationsError>>

\* deleteNotification(notificationId) up to its delete; the callback closes
\* over the notifications of the render it was created in
DeleteNotification(id) ==
    /\ Len(ncalls) < MaxCalls
    /\ ncalls' = Append(ncalls, [NoCall EXCEPT !.op = "deleteNotification", !.id = id,
                                               !.pc = "storage",
                                               !.seen = notifications])
    /\ UNCHANGED <<vars_reports, astra_notifications, notifications, unreadCount,
                   notificationsError, channel>>

\* the delete .eq('id', id).eq('user_id', user.id) answers; on success the
\* row leaves the local list and, when the closure's copy of it was unread,
\* the count is decremented
DeleteNotificationResolve(i, ok) ==
    /\ ncalls[i].pc = "storage" /\ ncalls[i].op = "deleteNotification"
    /\ IF ok
       THEN LET rows == {r \in DOMAIN astra_notifications :
                            /\ r = ncalls[i].id
                            /\ astra_notifications[r].user_id = CurrentUser}
                seen == ncalls[i].seen
            IN  /\ astra_notifications' =
                     [r \in DOMAIN astra_notifications \ rows |-> astra_notifications[r]]
                /\ notifications' = FilterOut(notifications, ncalls[i].id)
                /\ unreadCount' =
                     IF \E k \in DOMAIN seen : /\ seen[k].id = ncalls[i].id
                                               /\ \A j \in 1..(k - 1) :
                                                    seen[j].id # ncalls[i].id
                                               /\ ~seen[k].is_read
                     THEN Decrement(unreadCount) ELSE unreadCount
                /\ ncalls' = SetCall(i, EndedCall(ncalls[i], "true"))
       ELSE /\ ncalls' = SetCall(i, EndedCall(ncalls[i], "false"))
            /\ UNCHANGED <<astra_notifications, notifications, unreadCount>>
    /\ UNCHANGED <<vars_reports, notificationsError, channel>>

\* a notification is inserted for the user (by the backend): the INSERT
\* event is sent to the subscription
NotificationInserted(id) ==
    /\ id \notin DOMAIN astra_notifications
    /\ Len(channel) < MaxCalls
    /\ LET row == [user_id |-> CurrentUser, is_read |-> FALSE]
           table == [r \in DOMAIN astra_notifications \cup {id} |->
                        IF r = id THEN row ELSE astra_notifications[r]]
       IN  /\ astra_notifications' = table
           /\ channel' = channel \o ChangeEvents("INSERT", table, NewestFirst, {id},
                                                 CurrentUser)
    /\ UNCHANGED <<vars_reports, notifications, unreadCount, notificationsError,
                   ncalls>>

\* the subscription receives the next event: the INSERT handler prepends the
\* row and increments the count; the UPDATE handler replaces the row and,
\* when the new row is read, decrements the count
RealtimeEvent ==
    /\ channel # <<>>
    /\ LET payload == Head(channel)
       IN  IF payload.event = "INSERT"
           THEN /\ notifications' = <<payload.new>> \o notifications
                /\ unreadCount' = unreadCount + 1
           ELSE /\ notifications' = MapReplace(notifications, payload.new)
                /\ unreadCount' = IF payload.new.is_read THEN Decrement(unreadCount)
                                  ELSE unreadCount
    /\ channel' = Tail(channel)
    /\ UNCHANGED <<vars_reports, astra_notifications, notificationsError, ncalls>>

\* the notification is in the list the user sees
Shown(id) == \E k \in DOMAIN notifications : notifications[k].id = id

\* a session of the notification hook: its operations called one after the
\* other on the notifications shown, the realtime events arriving in between
NextNotifications ==
    \/ \E b \in BOOLEAN : NoCallInFlight /\ FetchNotifications(b)
    \/ \E id \in NotificationIds : NoCallInFlight /\ Shown(id) /\ MarkAsRead(id)
    \/ NoCallInFlight /\ MarkAllAsRead
    \/ \E id \in NotificationIds : NoCallInFlight /\ Shown(id) /\ DeleteNotification(id)
    \/ \E i \in DOMAIN ncalls, ok \in BOOLEAN : FetchNotificationsResolve(i, ok)
    \/ \E i \in DOMAIN ncalls, ok \in BOOLEAN : MarkAsReadResolve(i, ok)
    \/ \E i \in DOMAIN ncalls, ok \in BOOLEAN : MarkAllAsReadResolve(i, ok)
    \/ \E i \in DOMAIN ncalls, ok \in BOOLEAN : DeleteNotificationResolve(i, ok)
    \/ NotificationInserted("a3")
    \/ RealtimeEvent

InitNotifications == Mounted(EASTERN, TRUE, <<>>) /\ variant = CURRENT /\ webhookUrl = TRUE

SpecNotifications == InitNotifications /\ [][NextNotifications]_vars

----------------------------------------------------------------------------
(* Properties                                                               *)

\* the rows of astra_chats persisted by invocation i
RowsOf(i) == {k \in 1..Len(astra_chats) : astra_chats[k].id = i}

\* C1: while an invocation of runReportNow for a config id is in flight, a
\* later invocation for the same id is a no-op, so at most one execution per
\* config id is in flight at any time.
C1_AtMostOneInFlightPerId ==
    \A i, j \in DOMAIN inv :
        (i # j /\ InFlight(i) /\ InFlight(j)) => inv[i].id # inv[j].id

\* C2: an invocation whose webhook call fails persists no execution row,
\* sets the error string and leaves its id absent from the running-set when
\* it ends.
C2_WebhookFailure ==
    [][\A i \in DOMAIN inv :
          (inv[i].pc = "fetch" /\ inv'[i].pc = "ended" /\ inv'[i].failure = "webhook")
          => /\ astra_chats' = astra_chats
             /\ RowsOf(i)' = {}
             /\ inv'[i].inserts = 0
             /\ error' # NoError
             /\ inv[i].id \notin runningReports']_vars

C2_Witness ==
    \E i \in DOMAIN inv :
        /\ inv[i].pc = "ended" /\ inv[i].failure = "webhook" /\ inv[i].posted
        /\ error = RunError
        /\ inv[i].id \notin runningReports
        /\ RowsOf(i) = {}

\* C3: every invocation that added its id to the running-set removes it when
\* it ends, whatever the outcome, and no id stays in the running-set forever.
C3_RunningSetIsCleared ==
    /\ [][\A i \in DOMAIN inv' :
            \/ i \in DOMAIN inv /\ InFlight(i) /\ inv'[i].pc = "ended"
            \/ i \notin DOMAIN inv /\ inv'[i].pc = "ended" /\ inv'[i].failure = "noUrl"
                                   /\ variant # GUARDED
            => inv'[i].id \notin runningReports']_vars
    /\ \A id \in ConfigIds : (id \in runningReports) ~> (id \notin runningReports)

C3_Witness ==
    \E i \in DOMAIN inv :
        /\ inv[i].pc = "ended" /\ inv[i].failure = "persist"
        /\ inv[i].id \notin runningReports

\* C4: for a 2xx response whose body parses as JSON and contains an output
\* field the persisted message is the value of that field; otherwise it is
\* the raw body.
C4_PersistedText ==
    \A k \in 1..Len(astra_chats) :
        LET body == inv[astra_chats[k].id].body
            json == JSONParse(body)
        IN  astra_chats[k].message =
                IF json.ok /\ json.hasOutput THEN json.output ELSE body

\* C5 (as claimed): every invocation whose webhook call returned 2xx persists
\* exactly one row, tagged mode "reports" and message_type "astra", of the
\* current user.
C5_ExactlyOneRow ==
    \A i \in DOMAIN inv :
        (variant # GUARDED /\ inv[i].pc = "ended" /\ inv[i].ok2xx)
        => /\ Cardinality(RowsOf(i)) = 1
           /\ \A k \in RowsOf(i) : /\ astra_chats[k].mode = "reports"
                                   /\ astra_chats[k].message_type = "astra"
                                   /\ astra_chats[k].user_id = CurrentUser

\* C5 (amended): in the implementations that persist on the client, an
\* invocation whose webhook call returned 2xx persists exactly one row when
\* the insert succeeds and none when the storage reports an error; no
\* invocation persists more than one row, and every row is tagged mode
\* "reports" and message_type "astra" with the current user's id.
C5_OneRowUnlessInsertFails ==
    /\ \A i \in DOMAIN inv :
         /\ Cardinality(RowsOf(i)) <= 1
         /\ Cardinality(RowsOf(i)) = inv[i].inserts
         /\ (variant # GUARDED /\ inv[i].pc = "ended" /\ inv[i].ok2xx)
            => (Cardinality(RowsOf(i)) = 1 <=> inv[i].failure # "persist")
    /\ \A k \in 1..Len(astra_chats) :
         /\ astra_chats[k].mode = "reports"
         /\ astra_chats[k].message_type = "astra"
         /\ astra_chats[k].user_id = CurrentUser

C5_Witness ==
    \E i \in DOMAIN inv :
        /\ inv[i].pc = "ended" /\ inv[i].ok2xx /\ inv[i].result = "returned"
        /\ Cardinality(RowsOf(i)) = 1
        /\ \E j \in DOMAIN inv : inv[j].failure = "persist" /\ RowsOf(j) = {}

\* C6: after a successful execution (webhook 2xx and row persisted) the
\* config's last_run_at is set to the execution time, and the next_run_at of
\* a scheduled config is recomputed (to an instant after it) and stored.
C6_LastRunIsStored ==
    \A i \in DOMAIN inv :
        (inv[i].pc = "ended" /\ inv[i].ok2xx /\ inv[i].inserts = 1)
        => /\ astra_reports[inv[i].id].last_run_at # NULL
           /\ astra_reports[inv[i].id].schedule_type = "scheduled"
              => astra_reports[inv[i].id].next_run_at
                   > astra_reports[inv[i].id].last_run_at

\* C7: every failure inside runReportNow (missing webhook URL, webhook
\* failure, failure to persist the row, failure to update the config) sets
\* the error string and re-throws to the caller.
C7_FailureSetsErrorAndThrows ==
    \A i \in DOMAIN inv :
        (inv[i].pc = "ended" /\ inv[i].failure \in {"noUrl", "webhook", "persist", "update"})
        => inv[i].errorSet /\ inv[i].result = "threw"

\* C8: the periodic check selects a config for automatic execution only if it
\* is scheduled and active.
C8_OnlyActiveScheduledSelected ==
    \A r \in selected : r.schedule_type = "scheduled" /\ r.is_active

C8_Witness ==
    /\ checks > 0
    /\ \E id \in DueConfigs(userReports) :
         userReports[id].schedule_type = "scheduled" /\ ~userReports[id].is_active
    /\ \E id \in DOMAIN userReports : userReports[id].schedule_type = "manual"
    /\ selected = {}

\* C9: an active scheduled config whose next_run_at has passed is selected
\* by the periodic check (and executed).
C9_DueConfigIsSelected ==
    \A id \in dueAtCheck : \E r \in selected : r.id = id

\* C10: whatever the browser's time zone, the calculators return the
\* schedule time on today's Eastern civil date when still ahead of now and on
\* the next civil day otherwise, as the correct absolute instant.
C10_NextRunIsEastern ==
    calc.pc = "done" => IsEasternNextRun(now, calc.scheduleTime, calc.result)

\* the configs created in this session
Created == DOMAIN astra_reports \ ConfigIds

\* C11: a scheduled daily config created by createReport is read back with a
\* non-null next_run_at that is strictly later than the creation instant and
\* at most 24 hours later (in the implementations that compute it on the
\* client).
C11_NextRunWithinADay ==
    \A id \in Created :
        (variant # GUARDED /\ astra_reports[id].schedule_type = "scheduled")
        => /\ astra_reports[id].next_run_at # NULL
           /\ astra_reports[id].next_run_at > astra_reports[id].created_at
           /\ astra_reports[id].next_run_at <= astra_reports[id].created_at + MinPerDay

ScheduleOf(row) == <<row.schedule_type, row.schedule_frequency, row.schedule_time>>

\* C12: an update that changes schedule_type, schedule_frequency or
\* schedule_time of a config that is then scheduled stores a next_run_at
\* computed from the new schedule, and an update that changes none of them
\* leaves the stored next_run_at unchanged.
C12_RecomputedExactlyOnScheduleChange ==
    [][\A i \in DOMAIN ops :
          (ops[i].op = "update" /\ ops[i].pc = "storage" /\ ops'[i].wrote)
          => LET old == astra_reports[ops[i].id]
                 new == astra_reports'[ops[i].id]
             IN  IF ScheduleOf(old) # ScheduleOf(new)
                 THEN new.schedule_type = "scheduled"
                      => new.next_run_at = NextRunAt(new.schedule_time)
                 ELSE new.next_run_at = old.next_run_at]_vars

\* C13: every write to astra_reports is scoped by both the config id and the
\* owning-user id.
C13_WritesScopedByIdAndUser ==
    \A w \in writes : {"id", "user_id"} \subseteq w.filter

FrameColumns == {"user_id", "title", "prompt", "schedule_type", "schedule_frequency",
                 "schedule_time", "last_run_at", "next_run_at", "created_at"}

\* C14: toggleReportActive(id, isActive) changes only is_active and
\* updated_at of the config with that id; its other columns and every other
\* config are unchanged.
C14_ToggleChangesOnlyIsActive ==
    [][\A i \in DOMAIN ops :
          (ops[i].op = "toggle" /\ ops[i].pc = "storage")
          => /\ DOMAIN astra_reports' = DOMAIN astra_reports
             /\ \A r \in DOMAIN astra_reports :
                  IF r = ops[i].id
                  THEN \A c \in FrameColumns : astra_reports'[r][c] = astra_reports[r][c]
                  ELSE astra_reports'[r] = astra_reports[r]
             /\ ops'[i].wrote => astra_reports'[ops[i].id].is_active = ops[i].payload.is_active]_vars

C14_Witness ==
    \E i \in DOMAIN ops :
        /\ ops[i].op = "toggle" /\ ops[i].pc = "ended" /\ ops[i].wrote
        /\ ops[i].id = "r1"
        /\ ~astra_reports["r1"].is_active
        /\ astra_reports["r1"].updated_at = now
        /\ astra_reports["r1"].next_run_at = StartInstant - MinPerHour

\* C15: deleteReport(id) removes only the config row with that id owned by
\* the caller; every other config and every execution row are unchanged.
C15_DeleteRemovesOnlyOwnConfig ==
    [][\A i \in DOMAIN ops :
          (ops[i].op = "delete" /\ ops[i].pc = "storage")
          => /\ astra_chats' = astra_chats
             /\ DOMAIN astra_reports \ {ops[i].id} \subseteq DOMAIN astra_reports'
             /\ \A r \in DOMAIN astra_reports' : astra_reports'[r] = astra_reports[r]
             /\ \A r \in DOMAIN astra_reports \ DOMAIN astra_reports' :
                  astra_reports[r].user_id = CurrentUser]_vars

C15_Witness ==
    \E i \in DOMAIN ops :
        /\ ops[i].op = "delete" /\ ops[i].pc = "ended" /\ ops[i].wrote
        /\ ops[i].id = "r1" /\ "r1" \notin DOMAIN astra_reports
        /\ "r3" \in DOMAIN astra_reports
        /\ astra_chats = StoredChats

ChatIds(rows) == {rows[k].id : k \in DOMAIN rows}

\* C16: a persisted execution row never changes; it is only ever removed, by
\* a deleteReportMessage for its id issued by its owner, and only if it is
\* tagged mode "reports"; that step removes no other row and changes no
\* config.
C16_ExecutionRowsAreImmutable ==
    [][/\ \A k \in DOMAIN astra_chats :
            \/ \E j \in DOMAIN astra_chats' : astra_chats'[j] = astra_chats[k]
            \/ /\ astra_chats[k].id \notin ChatIds(astra_chats')
               /\ astra_chats[k].user_id = CurrentUser
               /\ astra_chats[k].mode = "reports"
               /\ \E i \in DOMAIN ops :
                    /\ ops[i].op = "deleteMessage" /\ ops[i].pc = "storage"
                    /\ ops'[i].pc = "fetchMessages"
                    /\ ops[i].id = astra_chats[k].id
       /\ Len(astra_chats') < Len(astra_chats)
          => /\ Len(astra_chats') = Len(astra_chats) - 1
             /\ astra_reports' = astra_reports]_vars

C16_Witness ==
    \E i \in DOMAIN ops :
        /\ ops[i].op = "deleteMessage" /\ ops[i].pc = "ended" /\ ops[i].wrote
        /\ ops[i].id = ReportRowId
        /\ ChatIds(astra_chats) = {OtherRowId, PrivateRowId, 1}

\* C17: when the storage call of create, update or delete reports an error,
\* the operation sets the error string, returns null (create, update) or
\* returns without throwing (toggle, delete), writes nothing and leaves the
\* local list unchanged; the local list only changes by a completed
\* re-fetch.
C17_StorageErrorAborts ==
    [][/\ \A i \in DOMAIN ops :
            (ops[i].pc = "storage" /\ ops'[i].pc = "ended")
            => /\ error' # NoError
               /\ ops'[i].errorSet
               /\ astra_reports' = astra_reports
               /\ astra_chats' = astra_chats
               /\ userReports' = userReports
               /\ ops'[i].result \in IF ops[i].op \in {"create", "update"}
                                     THEN {"null"} ELSE {"void", "false"}
       /\ userReports' # userReports
          => \E i \in DOMAIN ops :
                /\ ops[i].pc = "fetch" /\ ops'[i].pc = "ended" /\ ops'[i].listed
                /\ userReports' = SelectUserReports(astra_reports, CurrentUser)]_vars

C17_Witness ==
    \E i \in DOMAIN ops :
        /\ ops[i].op = "create" /\ ops[i].pc = "ended" /\ ops[i].result = "null"
        /\ ops[i].errorSet /\ ~ops[i].wrote
        /\ error = "Failed to create report"
        /\ Created = {}
        /\ DOMAIN userReports = {"r1", "r2"}

Mutating == {"create", "update", "toggle", "delete"}

\* C18 (as claimed): every create, update, delete and toggle is followed by a
\* re-fetch of the user's report list.
C18_AlwaysRefetched ==
    \A i \in DOMAIN ops :
        (ops[i].op \in Mutating /\ ops[i].pc = "ended") => ops[i].refetched

\* C18 (amended): every create, update, delete and toggle whose storage call
\* succeeded is followed by a re-fetch of the user's report list, and when
\* that re-fetch succeeds the local list is replaced by the fetched result.
C18_RefetchedAfterSuccess ==
    [][\A i \in DOMAIN ops' :
          /\ (ops'[i].op \in Mutating /\ ops'[i].pc = "ended" /\ ops'[i].wrote)
             => ops'[i].refetched
          /\ (ops'[i].op \in Mutating /\ ops'[i].pc = "fetch") => ops'[i].refetched
          /\ (i \in DOMAIN ops /\ ops[i].pc = "fetch" /\ ops'[i].listed)
             => userReports' = SelectUserReports(astra_reports, CurrentUser)]_vars

C18_Witness ==
    \E i \in DOMAIN ops :
        /\ ops[i].op = "delete" /\ ops[i].pc = "ended" /\ ops[i].wrote
        /\ ops[i].refetched /\ ops[i].listed
        /\ DOMAIN userReports = {"r2"}
        /\ userReports = SelectUserReports(astra_reports, CurrentUser)

\* the frequency a form submits
FrequencyOf(form) ==
    IF Has(form, "frequency") THEN form.frequency ELSE form.schedule_frequency

\* a start day was entered in the form
HasStartDate(form) == Has(form, "start_date") /\ form.start_date # ""

\* C19: a submission whose title or prompt is empty or whitespace-only, or a
\* weekly/monthly submission with no start day, is blocked: no storage or
\* network call is made and no config row is created or changed.
C19_InvalidSubmissionIsBlocked ==
    \A i \in DOMAIN ops :
        LET form == ops[i].form
        IN  (DOMAIN form # {}
             /\ \/ Trim(form.title) = ""
                \/ Trim(form.prompt) = ""
                \/ FrequencyOf(form) \in {"weekly", "monthly"} /\ ~HasStartDate(form))
            => ops[i].result = "blocked" /\ ops[i].calls = 0 /\ ~ops[i].wrote

\* C20: a configuration error (no webhook URL in the client; a missing API key
\* or database configuration in the function) ends the invocation with an
\* error message before any call: no webhook POST, no generative-API call and
\* no storage read or write happens in that invocation.
C20_ConfigurationErrorFailsFast ==
    /\ \A i \in DOMAIN inv :
         ~webhookUrl
         => /\ ~inv[i].posted /\ inv[i].inserts = 0 /\ RowsOf(i) = {}
            /\ inv[i].pc = "ended"
            /\ inv[i].failure = "noUrl" => inv[i].errorSet /\ error # NoError
    /\ (~fn.supabaseUrl \/ ~fn.supabaseServiceKey \/ ~fn.geminiApiKey)
       => /\ fn.calls = {}
          /\ fn.pc \in {"idle", "ended"}
          /\ fn.pc = "ended" => fn.status = 500 /\ ~fn.success /\ fn.error # ""
          /\ \A k \in DOMAIN astra_chats : astra_chats[k].id # FnRowId
          /\ \A w \in writes : w.by # "generate-report"

C20_Witness ==
    /\ ~webhookUrl
    /\ \E i \in DOMAIN inv : inv[i].pc = "ended" /\ inv[i].failure = "noUrl"
    /\ fn.supabaseUrl /\ fn.supabaseServiceKey /\ ~fn.geminiApiKey
    /\ fn.pc = "ended" /\ fn.status = 500
    /\ astra_chats = <<>>

\* the request names no row of astra_reports / a row owned by another user
NoSuchReport == fn.reportId \notin DOMAIN astra_reports
ForeignReport ==
    /\ fn.reportId \in DOMAIN astra_reports
    /\ astra_reports[fn.reportId].user_id # fn.userId

\* the body and status of the response of the function
FnResponse == [status |-> fn.status, success |-> fn.success, error |-> fn.error]
NotFoundResponse ==
    [status |-> 500, success |-> FALSE, error |-> "Report not found or access denied"]

\* C21: a request naming a report id that does not exist and a request naming
\* a report id owned by a different user get the same response (HTTP 500,
\* success false, "Report not found or access denied"), and in both cases
\* only the select is made: no generative-API call, no chat-log row inserted,
\* no last_run_at updated.
C21_MissingAndForeignReportAlike ==
    (fn.pc # "idle" /\ FnConfigError(fn) = "" /\ (NoSuchReport \/ ForeignReport))
    => /\ fn.pc \in {"load", "ended"}
       /\ fn.calls = {"select"}
       /\ fn.pc = "ended" => FnResponse = NotFoundResponse
       /\ ~fn.updated
       /\ \A k \in DOMAIN astra_chats : astra_chats[k].id # FnRowId
       /\ \A w \in writes : w.by # "generate-report"

C21_Witness ==
    /\ fn.pc = "ended"
    /\ fn.userId = CurrentUser /\ fn.reportId = "r3"
    /\ ForeignReport
    /\ FnResponse = NotFoundResponse

\* C22: the function answers { success: true } only when the report was
\* loaded, the text generated, one chat-log row inserted and last_run_at
\* updated; when any of these steps fails it answers HTTP 500 with
\* { success: false, error }.
C22_SuccessOnlyWhenAllStepsDone ==
    fn.pc = "ended"
    => /\ fn.success
          <=> /\ fn.calls = {"select", "generate", "insert", "update"}
              /\ Cardinality({k \in DOMAIN astra_chats : astra_chats[k].id = FnRowId}) = 1
              /\ fn.updated
              /\ astra_reports[fn.reportId].last_run_at # NULL
       /\ ~fn.success => fn.status = 500 /\ fn.error # ""
       /\ fn.success => fn.status = 200

\* C23: the metadata stored on an execution row has report_title,
\* report_frequency and report_schedule equal to the config's title,
\* schedule_frequency and schedule_time at the time of the execution, and
\* is_manual_run equal to the manual-run flag of the invocation (runReportNow
\* is the manual run), whatever the webhook's response body contains.
C23_MetadataIsConfigSnapshot ==
    \A i \in DOMAIN inv : \A k \in RowsOf(i) :
        LET metadata == astra_chats[k].metadata
            report == astra_reports[inv[i].id]
        IN  /\ metadata.report_title = report.title
            /\ metadata.report_frequency = report.schedule_frequency
            /\ metadata.report_schedule = report.schedule_time
            /\ metadata.is_manual_run = TRUE

\* the invocation that a step appends was refused by the running-set guard
Refused(rec) == rec.pc = "ended" /\ rec.result = "false" /\ rec.failure = "none"

C26_InFlightIdIsInRunningSet ==
    \A i \in DOMAIN inv : InFlight(i) => inv[i].id \in runningReports

\* the local execution list holds the row persisted by invocation i
Listed(i) == \E k \in DOMAIN reportMessages : reportMessages[k] = i

\* a row persisted by an invocation is stored and not in the local list
PersistedUnlisted == \E i \in DOMAIN inv : RowsOf(i) # {} /\ ~Listed(i)

C27_ManualHasNoNextRun ==
    \A id \in DOMAIN astra_reports :
        astra_reports[id].schedule_type = "manual"
        => astra_reports[id].next_run_at = NULL

\* no store operation and no fetch is awaiting an answer
Quiescent == \A i \in DOMAIN ops : ops[i].pc = "ended"

\* C28: after any interleaving of create, update and delete operations with
\* list fetches whose responses arrive in any order, once no mutation and no
\* fetch is in flight the local userReports equals the stored list of the
\* current user's configs: a late response of an older fetch never leaves the
\* list stale.
C28_ListEqualsStoreWhenQuiescent ==
    Quiescent => userReports = SelectUserReports(astra_reports, CurrentUser)

\* C29: in useAppNotifications, after any sequence of fetchNotifications,
\* markAsRead, markAllAsRead, deleteNotification and realtime INSERT/UPDATE
\* events, unreadCount equals the number of notifications in the local list
\* whose is_read is false, and is never negative.
C29_UnreadCountMatchesList ==
    /\ unreadCount >= 0
    /\ unreadCount = Unread(notifications)

\* the civil day, in the browser's zone, of a Date
LocalDay(date) == WallDay(ToWall(browserTz, date))

\* C30: isEasternDaylightTime(date) returns true exactly for the dates from
\* the second Sunday in March (inclusive) to the first Sunday in November
\* (exclusive), for every weekday on which 1 March and 1 November can fall.
C30_DaylightFromSecondSundayOfMarch ==
    calc.pc = "tested"
    => (calc.daylight <=> /\ LocalDay(now) >= SecondSundayOfMarch
                          /\ LocalDay(now) < FirstSundayOfNovember)

====
